---- MODULE Spec2Model ----
(***************************************************************************)
(* A model of the Cardinal plugin bridge (src/src/CardinalPlugin.cpp):     *)
(* the per-block render path CardinalPlugin::run with its transport        *)
(* synchronisation, bypass-edge MIDI injection and in-place buffer guard,  *)
(* together with activate, deactivate and setParameterValue.               *)
(*                                                                         *)
(* One plugin instance is modelled in detail.  The audio thread is either  *)
(* outside run() (pc = "idle") or inside the engine's stepBlock            *)
(* (pc = "stepBlock").  The patch state (getState, setState), the          *)
(* destructor and the remote-control load handler of                       *)
(* src/src/CardinalCommon.cpp act on the instance's directory.  A second   *)
(* part models several instances of one process as far as their            *)
(* directories go (tempDir, plugins).                                      *)
(* Frame positions are uint64_t in the source; the model keeps them far    *)
(* below 2^64, so frame + frames never wraps.                              *)
(***************************************************************************)
EXTENDS Integers, Naturals, Sequences, FiniteSets, TLC

VARIABLES
    context,              \* CardinalPluginContext: the per-block bundle the engine reads
    fNextExpectedFrame,   \* uint64_t fNextExpectedFrame
    fWasBypassed,         \* bool fWasBypassed
    bypassMidiEvents,     \* MidiEvent bypassMidiEvents[16]
    fAudioBufferCopy,     \* float** fAudioBufferCopy (scratch copies of the inputs)
    rackContext,          \* the process-wide binding written by rack::contextSet
    mem,                  \* the host's audio buffers, by address
    pc,                   \* position of the audio thread; "destroyed" once the destructor ran
    fault,                \* an invalid memory access has happened
    call,                 \* arguments, locals and engine observation of the current/last run()
    prev,                 \* the block rendered before `call`
    activatedSinceRun,    \* activate() was called after the last run()
    edgeInjections,       \* blocks that delivered bypassMidiEvents since the last non-bypassed block
    lostCopy,             \* scratch arrays are allocated that no pointer refers to any more
    fAutosavePath,        \* std::string fAutosavePath ("" when no directory was created)
    fState,               \* fState.comment, fState.screenshot
    autosaveDir,          \* the directory at fAutosavePath on disk
    enginePatch,          \* the patch the engine holds, as the files its autosave consists of
    returned,             \* the value the last getState() returned
    stateCall,            \* what the last getState()/setState() on the control thread did,
                          \* step by step
    tempDir,              \* the candidate directories Cardinal.NNNN in the temp directory
    plugins,              \* the plugin instances of one process, as far as their
                          \* directories go: constructor, setState("patch"), destructor
    midiCall              \* the last call of CardinalPluginContext::writeMidiMessage: its
                          \* arguments and the events it handed to plugin->writeMidiEvent

\* the variables of the patch-state path
stateVars == <<fAutosavePath, fState, autosaveDir, enginePatch, returned, stateCall>>

\* the variables of the render path (the context and the context binding apart)
renderVars == <<fNextExpectedFrame, fWasBypassed, bypassMidiEvents, fAudioBufferCopy, mem, pc,
                fault, call, prev, activatedSinceRun, edgeInjections, lostCopy>>

\* the variables of the model of several instances in one process
processVars == <<tempDir, plugins>>

\* the variables of the MIDI output path
midiVars == <<midiCall>>

vars == <<context, rackContext, renderVars, stateVars, processVars, midiVars>>

(***************************************************************************)
(* Bounds of the model.                                                    *)
(***************************************************************************)
MaxFrame == 4
MaxBlockLen == 2
MaxBlocks == 3
MaxSample == 3
MaxAudioBlocks == 2
MaxCandidates == 2

(***************************************************************************)
(* Build configuration and host values.                                    *)
(***************************************************************************)
NumInputs == 2
NumOutputs == 2
kModuleParameters == 24
HostSampleRate == 48000

NullPtr == 0
Addr == 1..(NumInputs + NumOutputs)
Ptr == {NullPtr} \cup Addr
Samples == 0..MaxSample
BlockLens == 0..MaxBlockLen
FramePositions == 0..MaxFrame

\* getBufferSize(): the host's maximum block length
getBufferSize == MaxBlockLen

(***************************************************************************)
(* Values.                                                                 *)
(***************************************************************************)
\* a fraction n/d standing for a double computed from integer inputs
Frac(n, d) == <<n, d>>

\* TimePosition::BarBeatTick: two musical-time snapshots a host may report, valid or not
BBT(valid, n) ==
    IF n = 1
    THEN [valid |-> valid, bar |-> 1, beat |-> 1, beatsPerBar |-> 4, beatType |-> 4,
          barStartTick |-> 0, beatsPerMinute |-> 120, tick |-> 0, ticksPerBeat |-> 1920]
    ELSE [valid |-> valid, bar |-> 2, beat |-> 3, beatsPerBar |-> 3, beatType |-> 8,
          barStartTick |-> 5760, beatsPerMinute |-> 90, tick |-> 500, ticksPerBeat |-> 960]
BBTs == { BBT(v, n) : v \in BOOLEAN, n \in {1, 2} }

\* TimePosition as returned by getTimePosition()
TimePositions == [playing : BOOLEAN, frame : FramePositions, bbt : BBTs]
StoppedTimePosition == [playing |-> FALSE, frame |-> 0, bbt |-> BBT(FALSE, 1)]

\* MidiEvent { frame; size; data[4] }
ZeroMidiEvent == [frame |-> 0, size |-> 0, data |-> <<0, 0, 0, 0>>]
NoteOn == [frame |-> 0, size |-> 3, data |-> <<144, 60, 100, 0>>]
NoteOff == [frame |-> 1, size |-> 3, data |-> <<128, 60, 0, 0>>]
HostMidiLists == { <<>>, <<NoteOn>>, <<NoteOn, NoteOff>> }

\* setParameterValue's float argument, in tenths
ParamValues == {0, 5, 6, 10}

\* a buffer view handed to the engine: the host's pointers, the scratch copy, or nullptr
NullView == [kind |-> "null", ptrs |-> <<>>]
HostView(ptrs) == [kind |-> "host", ptrs |-> ptrs]
CopyView == [kind |-> "copy", ptrs |-> <<>>]

\* what a host buffer holds when the host calls run(): nonzero, distinct per address and index
HostSample(a, k, seed) == 1 + ((a + k + seed) % MaxSample)
HostMemory(seed) == [a \in Addr |-> [k \in 1..MaxBlockLen |-> HostSample(a, k, seed)]]
SilentMemory == [a \in Addr |-> [k \in 1..MaxBlockLen |-> 0]]

(***************************************************************************)
(* Patch state: texts, blobs, the staging directory and the engine.        *)
(* A text (a C string) is a sequence of character codes; in a base64 text  *)
(* the codes 0..63 are the alphabet and 64 is the padding character '='.   *)
(* A blob is a sequence of bytes.                                          *)
(***************************************************************************)
\* String::asBase64(data, size)
RECURSIVE asBase64(_)
asBase64(b) ==
    IF b = <<>> THEN <<>>
    ELSE LET n  == Len(b)
             b1 == b[1]
             b2 == IF n >= 2 THEN b[2] ELSE 0
             b3 == IF n >= 3 THEN b[3] ELSE 0
             c1 == b1 \div 4
             c2 == (b1 % 4) * 16 + b2 \div 16
             c3 == (b2 % 16) * 4 + b3 \div 64
             c4 == b3 % 64
         IN  IF n = 1 THEN <<c1, c2, 64, 64>>
             ELSE IF n = 2 THEN <<c1, c2, c3, 64>>
             ELSE <<c1, c2, c3, c4>> \o asBase64(SubSeq(b, 4, n))

\* the characters before the first '='
RECURSIVE UpToPadding(_)
UpToPadding(t) ==
    IF t = <<>> \/ t[1] = 64 THEN <<>> ELSE <<t[1]>> \o UpToPadding(Tail(t))

RECURSIVE DecodeSextets(_)
DecodeSextets(t) ==
    LET n  == Len(t)
        c1 == t[1]
        c2 == IF n >= 2 THEN t[2] ELSE 0
        c3 == IF n >= 3 THEN t[3] ELSE 0
        c4 == IF n >= 4 THEN t[4] ELSE 0
        three == <<c1 * 4 + c2 \div 16, (c2 % 16) * 16 + c3 \div 4, (c3 % 4) * 64 + c4>>
    IN  IF n = 0 THEN <<>>
        ELSE IF n >= 4 THEN three \o DecodeSextets(SubSeq(t, 5, n))
        ELSE SubSeq(three, 1, n - 1)

\* d_getChunkFromBase64String(value): decoding stops at the first '='; a last group of
\* i < 4 characters gives i - 1 bytes
d_getChunkFromBase64String(value) == DecodeSextets(UpToPadding(value))

\* static constexpr const char zstdMagic[] = "\x28\xb5\x2f\xfd": the four bytes and the
\* terminating NUL, so sizeof(zstdMagic) is 5
zstdMagic == <<40, 181, 47, 253, 0>>

\* mutant: the test is inverted (memcmp(...) == 0)
MagicDiffers_Inverted(data, beyond) ==
    \A k \in 1..Len(zstdMagic) :
        (IF k <= Len(data) THEN data[k] ELSE beyond) = zstdMagic[k]

\* std::memcmp(data.data(), zstdMagic, sizeof(zstdMagic)) != 0; `beyond` is the byte found
\* past the end of a vector shorter than sizeof(zstdMagic)
MagicDiffers(data, beyond) ==
    \E k \in 1..Len(zstdMagic) :
        (IF k <= Len(data) THEN data[k] ELSE beyond) # zstdMagic[k]

\* a directory: whether it exists, and its files (name -> bytes)
NoFiles == [n \in {} |-> <<>>]
AbsentDir == [exists |-> FALSE, files |-> NoFiles]
EmptyDir == [exists |-> TRUE, files |-> NoFiles]

\* rack::system::removeRecursively, rack::system::createDirectories
removeRecursively(dir) == AbsentDir
createDirectories(dir) == IF dir.exists THEN dir ELSE EmptyDir

\* the files an archive can name, in archive order
ArchiveNames == <<"patch.json", "modules.bin">>

\* the tar stream of a directory: per file its index in ArchiveNames, its length and its
\* bytes
RECURSIVE ArchiveEntries(_, _)
ArchiveEntries(files, i) ==
    IF i > Len(ArchiveNames) THEN <<>>
    ELSE (IF ArchiveNames[i] \in DOMAIN files
          THEN <<i, Len(files[ArchiveNames[i]])>> \o files[ArchiveNames[i]]
          ELSE <<>>) \o ArchiveEntries(files, i + 1)

\* a zstd frame: the four magic bytes, the frame header descriptor, the content
ZstdFrame(descriptor, files) ==
    SubSeq(zstdMagic, 1, 4) \o <<descriptor>> \o ArchiveEntries(files, 1)

\* rack::system::archiveDirectory: streaming compression without checksum or content
\* size, which gives the frame header descriptor 0
archiveDirectory(dir) == ZstdFrame(0, dir.files)

\* rack::system::unarchiveToDirectory: the files are extracted in archive order; a
\* malformed entry stops the extraction with an exception, the files extracted so far stay
RECURSIVE ExtractEntries(_, _)
ExtractEntries(bytes, files) ==
    IF bytes = <<>> THEN [threw |-> FALSE, files |-> files]
    ELSE IF \/ Len(bytes) < 2
            \/ bytes[1] \notin 1..Len(ArchiveNames)
            \/ Len(bytes) < 2 + bytes[2]
    THEN [threw |-> TRUE, files |-> files]
    ELSE ExtractEntries(SubSeq(bytes, 3 + bytes[2], Len(bytes)),
                        (ArchiveNames[bytes[1]] :> SubSeq(bytes, 3, 2 + bytes[2])) @@ files)

unarchiveToDirectory(data, dir) ==
    IF \/ ~dir.exists
       \/ Len(data) < 5
       \/ SubSeq(data, 1, 4) # SubSeq(zstdMagic, 1, 4)
    THEN [threw |-> TRUE, dir |-> dir]
    ELSE LET r == ExtractEntries(SubSeq(data, 6, Len(data)), dir.files)
         IN  [threw |-> r.threw, dir |-> [exists |-> TRUE, files |-> r.files]]

\* engine->prepareSave(), patch->saveAutosave(), patch->cleanAutosave(): afterwards the
\* directory holds the files of the engine's patch and nothing else
FlushToAutosave(patch) == [exists |-> TRUE, files |-> patch]

\* patch->saveAutosave() writes the files of the engine's patch into the directory, which
\* it creates when missing; patch->cleanAutosave() removes what belongs to no module of
\* the patch
saveAutosave(dir, patch) == [exists |-> TRUE, files |-> patch @@ dir.files]
cleanAutosave(dir, patch) ==
    [dir EXCEPT !.files = [n \in DOMAIN dir.files \cap DOMAIN patch |-> dir.files[n]]]

\* patch->loadAutosave(): throws when patch.json is missing or the engine rejects it
LoadThrows(dir, accepted) == "patch.json" \notin DOMAIN dir.files \/ ~accepted

\* the patch of the template, loaded by the constructor
TemplatePatch == "patch.json" :> <<123, 125>>
\* a patch with a module that stores data of its own
ModulePatch == ("patch.json" :> <<123, 34, 109, 34, 125>>) @@ ("modules.bin" :> <<7>>)

AutosavePath == "Cardinal.0001"

NoText == <<>>
Texts == { NoText, <<7, 8>> }

\* the last getState/setState was for a key other than patch; `op` names the last call
\* for the key patch (or the destructor, or the remote load), `valid` says that it was a
\* setState("patch") that got past the early returns for the key and the path
NoStateCall ==
    [op |-> "", valid |-> FALSE, data |-> <<>>, raw |-> FALSE, steps |-> <<>>, bound |-> FALSE,
     caught |-> "", logged |-> "", escaped |-> "", reported |-> "none"]

(***************************************************************************)
(* Several instances in one process and their directories.                 *)
(***************************************************************************)
\* std::snprintf(uidBuf, sizeof(uidBuf), "Cardinal.%04d", i): the digits after the dot,
\* for 0 < i < 10000
Format04d(i) == <<(i \div 1000) % 10, (i \div 100) % 10, (i \div 10) % 10, i % 10>>

\* the suffixes the model lets the constructors reach, and their paths
Candidates == 1..MaxCandidates
CandidatePaths == { Format04d(i) : i \in Candidates }

\* std::string fAutosavePath of an instance that adopted no directory
EmptyPath == <<>>

Instances == {"a", "b"}

\* an instance before its construction: `pc` is its position in the constructor, in
\* setState("patch") or in the destructor, `i` the loop counter of the constructor,
\* `path` its fAutosavePath, `tested` what rack::system::exists answered for the
\* candidates tested, `created` what createDirectories answered
NoPlugin == [pc |-> "none", i |-> 0, path |-> EmptyPath, tested |-> <<>>, created |-> "none"]

(***************************************************************************)
(* d_isDiffHigherThanLimit                                                 *)
(***************************************************************************)
\* mutant: the equal case answers true
d_isDiffHigherThanLimit_EqualIsHigher(v1, v2, limit) ==
    IF v1 # v2 THEN (IF v1 > v2 THEN v1 - v2 ELSE v2 - v1) > limit ELSE TRUE

d_isDiffHigherThanLimit(v1, v2, limit) ==
    IF v1 # v2 THEN (IF v1 > v2 THEN v1 - v2 ELSE v2 - v1) > limit ELSE FALSE

(***************************************************************************)
(* Construction.                                                           *)
(***************************************************************************)
\* mutant: the channel is not added to the status byte
BuildBypassMidiEvents_NoChannel ==
    [i \in 0..15 |-> [ZeroMidiEvent EXCEPT !.size = 3,
                                           !.data[1] = 176,
                                           !.data[2] = 123]]

\* memset(bypassMidiEvents, 0, ...) followed by the loop over the 16 channels
BuildBypassMidiEvents ==
    [i \in 0..15 |-> [ZeroMidiEvent EXCEPT !.size = 3,
                                           !.data[1] = (176 + i) % 256,
                                           !.data[2] = 123]]

NullBufferCopy == [alloc |-> FALSE, size |-> 0, data |-> <<>>]

NoCall ==
    [valid |-> FALSE, tp |-> StoppedTimePosition, frames |-> 0,
     inArr |-> NullPtr, outArr |-> NullPtr, inputs |-> <<>>, outputs |-> <<>>,
     hostMem |-> SilentMemory, midiEvents |-> <<>>, midiEventCount |-> 0,
     bypassed |-> FALSE, expected |-> 0, ctxPlaying |-> FALSE, ctxFrame |-> 0,
     wasBypassed |-> FALSE, counter |-> 0, afterActivate |-> FALSE,
     engineIns |-> <<>>, memAtStep |-> SilentMemory, stepBlock |-> <<>>]

\* no module has called writeMidiMessage yet
NoMidiCall ==
    [valid |-> FALSE, bypassed |-> FALSE, bytes |-> <<>>, frame |-> 0, channel |-> 0,
     written |-> <<>>]

NoPrev == [valid |-> FALSE, playing |-> FALSE, frame |-> 0, frames |-> 0, bypassed |-> FALSE]

\* the context after the constructor; the fields run() reads before writing them
\* (playing, frame, bypassed) are left open
InitContext(playing, frame, bypassed) ==
    [bufferSize |-> getBufferSize, processCounter |-> 0, bypassed |-> bypassed,
     playing |-> playing, reset |-> FALSE, bbtValid |-> FALSE, frame |-> frame,
     bar |-> 1, beat |-> 1, beatsPerBar |-> 4, beatType |-> 4, barStartTick |-> 0,
     beatsPerMinute |-> 120, tick |-> 0, ticksPerBeat |-> 0,
     ticksPerClock |-> Frac(0, 1), ticksPerFrame |-> Frac(0, 1), tickClock |-> Frac(0, 1),
     dataIns |-> NullView, dataOuts |-> NullView,
     midiEvents |-> [src |-> "null", events |-> <<>>], midiEventCount |-> 0,
     parameters |-> [i \in 0..(kModuleParameters - 1) |-> 0]]

InstanceInit ==
    /\ \E playing \in BOOLEAN, frame \in {0, MaxFrame}, bypassed \in BOOLEAN :
           context = InitContext(playing, frame, bypassed)
    /\ fNextExpectedFrame = 0
    /\ fWasBypassed = FALSE
    /\ bypassMidiEvents = BuildBypassMidiEvents
    /\ fAudioBufferCopy = NullBufferCopy
    /\ rackContext = "null"
    /\ mem = SilentMemory
    /\ pc = "idle"
    /\ fault = FALSE
    /\ call = NoCall
    /\ prev = NoPrev
    /\ midiCall = NoMidiCall
    /\ activatedSinceRun = FALSE
    /\ edgeInjections = 0
    /\ lostCopy = FALSE
    /\ \E created \in BOOLEAN :
           /\ fAutosavePath = (IF created THEN AutosavePath ELSE "")
           /\ autosaveDir = (IF created THEN EmptyDir ELSE AbsentDir)
    /\ fState = [comment |-> NoText, screenshot |-> NoText]
    /\ enginePatch = TemplatePatch
    /\ returned = NoText
    /\ stateCall = NoStateCall

\* one instance is looked at; no other instance of the process has been constructed
Init ==
    /\ InstanceInit
    /\ tempDir = [path \in CandidatePaths |-> AbsentDir]
    /\ plugins = [p \in Instances |-> NoPlugin]

(***************************************************************************)
(* activate / deactivate / setParameterValue                               *)
(***************************************************************************)
\* new float*[NUM_INPUTS], each new float[bufferSize]; `fill` is the (indeterminate)
\* content of the fresh arrays
AllocBufferCopy(size, fill) ==
    [alloc |-> TRUE, size |-> size,
     data |-> [i \in 1..NumInputs |-> [k \in 1..size |-> fill]]]

Activate(fill) ==
    /\ pc = "idle"
    /\ ~fault
    /\ context' = [context EXCEPT !.bufferSize = getBufferSize]
    /\ fAudioBufferCopy' = AllocBufferCopy(getBufferSize, fill)
    /\ fNextExpectedFrame' = 0
    /\ activatedSinceRun' = TRUE
    /\ lostCopy' = (lostCopy \/ fAudioBufferCopy.alloc)
    /\ UNCHANGED <<fWasBypassed, bypassMidiEvents, rackContext, mem, pc, fault, call, prev,
                   edgeInjections, stateVars, processVars, midiVars>>

Deactivate ==
    /\ pc = "idle"
    /\ ~fault
    /\ fAudioBufferCopy' = IF fAudioBufferCopy.alloc THEN NullBufferCopy ELSE fAudioBufferCopy
    /\ UNCHANGED <<context, fNextExpectedFrame, fWasBypassed, bypassMidiEvents, rackContext,
                   mem, pc, fault, call, prev, activatedSinceRun, edgeInjections,
                   lostCopy, stateVars, processVars, midiVars>>

\* value > 0.5f, with the value in tenths
AboveHalf(value) == value > 5

\* headless build: no window parameters follow the bypass parameter
SetParameterValue(index, value) ==
    /\ ~fault
    /\ pc # "destroyed"
    /\ context' = IF index < kModuleParameters
                  THEN [context EXCEPT !.parameters[index] = value]
                  ELSE IF index = kModuleParameters
                  THEN [context EXCEPT !.bypassed = AboveHalf(value)]
                  ELSE context
    /\ UNCHANGED <<fNextExpectedFrame, fWasBypassed, bypassMidiEvents, fAudioBufferCopy,
                   rackContext, mem, pc, fault, call, prev, activatedSinceRun, edgeInjections,
                   lostCopy, stateVars, processVars, midiVars>>

(***************************************************************************)
(* CardinalPluginContext::writeMidiMessage (CardinalCommon.cpp), called by *)
(* the MIDI output modules of the patch while the engine renders a block.  *)
(***************************************************************************)
\* a | b on unsigned values
RECURSIVE BitOr(_, _)
BitOr(a, b) ==
    IF a = 0 THEN b
    ELSE IF b = 0 THEN a
    ELSE (IF a % 2 = 1 \/ b % 2 = 1 THEN 1 ELSE 0) + 2 * BitOr(a \div 2, b \div 2)

\* mutant: program change and channel pressure are given 3 bytes like the other channel
\* messages
EventSize_AllChannelMessagesThree(status) ==
    IF (status \div 16) * 16 \in {128, 144, 160, 176, 192, 208, 224} THEN 3
    ELSE IF (status \div 16) * 16 = 240
    THEN IF status % 16 \in {0, 4, 5, 7, 9, 13} THEN 0
         ELSE IF status % 16 \in {1, 2, 3, 14} THEN 3
         ELSE 1
    ELSE 0

\* the two switch statements on message.bytes[0] & 0xF0 and message.bytes[0] & 0x0F:
\* event.size, or 0 where the function returns ("unsupported", "invalid")
EventSize(status) ==
    IF (status \div 16) * 16 \in {128, 144, 160, 176, 224} THEN 3
    ELSE IF (status \div 16) * 16 \in {192, 208} THEN 2
    ELSE IF (status \div 16) * 16 = 240
    THEN IF status % 16 \in {0, 4, 5, 7, 9, 13} THEN 0
         ELSE IF status % 16 \in {1, 2, 3, 14} THEN 3
         ELSE 1
    ELSE 0

\* the first byte of the event: event.data[0] |= channel & 0x0F for a channel other than 0
\* and a byte below 0xF0
StatusWithChannel(status, channel) ==
    IF channel # 0 /\ status < 240 THEN BitOr(status, channel % 16) ELSE status

\* the event built from the message: event.frame takes message.frame (a frame of the
\* block, which the 32 bits of event.frame hold as it is), event.data holds the first
\* event.size bytes and, behind them, what the uninitialised array held (`fill`)
BuildMidiEvent(message, channel, size, fill) ==
    [frame |-> message.frame,
     size  |-> size,
     data  |-> [k \in 1..4 |->
                  IF k = 1 THEN StatusWithChannel(message.bytes[1], channel)
                  ELSE IF k <= size THEN message.bytes[k]
                  ELSE fill]]

\* mutant: the bypass flag is not looked at
writeMidiMessage_IgnoresBypass(bypassed, message, channel, fill) ==
    IF Len(message.bytes) = 0 THEN <<>>
    ELSE IF message.frame < 0 THEN <<>>
    ELSE IF EventSize(message.bytes[1]) = 0 THEN <<>>
    ELSE IF Len(message.bytes) < EventSize(message.bytes[1]) THEN <<>>
    ELSE <<BuildMidiEvent(message, channel, EventSize(message.bytes[1]), fill)>>

\* the events the call hands to plugin->writeMidiEvent, in the order of the returns of
\* the function
writeMidiMessage(bypassed, message, channel, fill) ==
    IF bypassed THEN <<>>
    ELSE IF Len(message.bytes) = 0 THEN <<>>
    ELSE IF message.frame < 0 THEN <<>>
    ELSE IF EventSize(message.bytes[1]) = 0 THEN <<>>
    ELSE IF Len(message.bytes) < EventSize(message.bytes[1]) THEN <<>>
    ELSE <<BuildMidiEvent(message, channel, EventSize(message.bytes[1]), fill)>>

\* a module of the patch calls context->writeMidiMessage(message, channel) from inside
\* stepBlock; the function reads context->bypassed itself
WriteMidiMessage(message, channel, fill) ==
    /\ pc = "stepBlock"
    /\ ~fault
    /\ midiCall' = [valid |-> TRUE, bypassed |-> context.bypassed,
                    bytes |-> message.bytes, frame |-> message.frame, channel |-> channel,
                    written |-> writeMidiMessage(context.bypassed, message, channel, fill)]
    /\ UNCHANGED <<context, rackContext, renderVars, stateVars, processVars>>

(***************************************************************************)
(* getState / setState (headless build: the keys patch, comment and        *)
(* screenshot).  Both run on the host's control thread and may be called   *)
(* while the audio thread is inside run().                                 *)
(***************************************************************************)
\* one step of a call: the operation and whether the directory exists after it
Step(op, dir) == [op |-> op, exists |-> dir.exists]

\* the binding rack::contextSet leaves behind after the steps of a call
BindingAfter(steps, binding) ==
    LET sets == { i \in 1..Len(steps) : steps[i].op \in {"contextSet", "contextSet(nullptr)"} }
        last == CHOOSE i \in sets : \A j \in sets : j <= i
    IN  IF sets = {} THEN binding
        ELSE IF steps[last].op = "contextSet" THEN "this" ELSE "null"

\* mutant: the directory is archived before the engine has flushed into it
GetOps_ArchiveFirst ==
    <<"contextSet", "archiveDirectory", "prepareSave", "saveAutosave", "cleanAutosave",
      "contextSet(nullptr)", "asBase64">>

\* mutant: getState does not bind the context
GetOps_NoScopedContext ==
    <<"prepareSave", "saveAutosave", "cleanAutosave", "archiveDirectory", "asBase64">>

\* getState("patch") from line 753 on: the operations in the order the code performs them.
\* The ScopedContext is destroyed at the closing brace of line 764, before line 766
GetOps ==
    <<"contextSet", "prepareSave", "saveAutosave", "cleanAutosave", "archiveDirectory",
      "contextSet(nullptr)", "asBase64">>

\* mutant: a caught exception leaves the scope without running the destructor
RunsOnThrow_Nothing(op) == FALSE

\* DISTRHO_SAFE_EXCEPTION_RETURN("getState archiveDirectory", String()) returns from
\* inside the scope of `sc`: of the operations still ahead only ~ScopedContext runs
RunsOnThrow(op) == op = "contextSet(nullptr)"

\* nothing done yet: the directory as the call finds it, std::vector<uint8_t> data empty
GetStart(dir) == [steps |-> <<>>, dir |-> dir, data |-> <<>>, text |-> NoText, threw |-> FALSE]

\* the operations `ops` of getState("patch") performed one after the other on the engine's
\* patch; `archived`: archiveDirectory does not throw.  The result has the steps taken,
\* the directory, the archive bytes and the text handed back
RECURSIVE GetCall(_, _, _, _)
GetCall(ops, s, patch, archived) ==
    IF ops = <<>> THEN s
    ELSE LET op  == Head(ops)
             dir == IF op = "saveAutosave" THEN saveAutosave(s.dir, patch)
                    ELSE IF op = "cleanAutosave" THEN cleanAutosave(s.dir, patch)
                    ELSE s.dir
             t   == [steps |-> Append(s.steps, Step(op, dir)),
                     dir   |-> dir,
                     data  |-> IF op = "archiveDirectory" /\ archived
                               THEN archiveDirectory(dir) ELSE s.data,
                     text  |-> IF op = "asBase64" THEN asBase64(s.data) ELSE s.text,
                     threw |-> s.threw \/ (op = "archiveDirectory" /\ ~archived)]
         IN  GetCall(Tail(ops), IF s.threw /\ ~RunsOnThrow(op) THEN s ELSE t, patch, archived)

\* mutant: the operations go on without a directory
NoDirectory_Never(path) == FALSE

\* if (fAutosavePath.empty()) return ...: the constructor created no directory
NoDirectory(path) == path = ""

\* `archived`: archiveDirectory does not throw
GetState(key, archived) ==
    /\ ~fault
    /\ pc # "destroyed"
    /\ IF key = "comment"
       THEN /\ returned' = fState.comment
            /\ stateCall' = NoStateCall
            /\ UNCHANGED <<rackContext, autosaveDir>>
       ELSE IF key = "screenshot"
       THEN /\ returned' = fState.screenshot
            /\ stateCall' = NoStateCall
            /\ UNCHANGED <<rackContext, autosaveDir>>
       ELSE IF key # "patch"
       THEN /\ returned' = NoText
            /\ stateCall' = NoStateCall
            /\ UNCHANGED <<rackContext, autosaveDir>>
       ELSE IF NoDirectory(fAutosavePath)
       THEN /\ returned' = NoText
            /\ stateCall' = [NoStateCall EXCEPT !.op = "getState", !.reported = "text"]
            /\ UNCHANGED <<rackContext, autosaveDir>>
       ELSE \E c \in {GetCall(GetOps, GetStart(autosaveDir), enginePatch, archived)} :
            /\ autosaveDir' = c.dir
            /\ rackContext' = BindingAfter(c.steps, rackContext)
            /\ returned' = c.text
            /\ stateCall' = [op |-> "getState", valid |-> FALSE, data |-> c.data,
                             raw |-> FALSE, steps |-> c.steps, bound |-> TRUE,
                             caught |-> IF c.threw THEN "archiveDirectory" ELSE "",
                             logged |-> IF c.threw THEN "getState archiveDirectory" ELSE "",
                             escaped |-> "", reported |-> "text"]
    /\ UNCHANGED <<context, renderVars, fAutosavePath, fState, enginePatch, processVars, midiVars>>

\* what the system calls of setState("patch") meet: removeRecursively removes the
\* directory, createDirectories creates it, fopen opens patch.json, fwrite and fclose bring
\* all or only some of the bytes to the file, the engine accepts the patch it loads
IoOutcomes ==
    [removed : BOOLEAN, created : BOOLEAN, opened : BOOLEAN,
     written : {"all", "some"}, accepted : BOOLEAN]
IoOk == [removed |-> TRUE, created |-> TRUE, opened |-> TRUE, written |-> "all",
         accepted |-> TRUE]

\* std::fwrite(data.data(), data.size(), 1, f); std::fclose(f): the results are not looked at
WrittenBytes(data, written) ==
    IF written = "all" THEN data ELSE SubSeq(data, 1, Len(data) - 1)

\* mutant: a blob of any length is accepted
AcceptsBlob_AnyLength(data) == TRUE

\* DISTRHO_SAFE_ASSERT_RETURN(data.size() >= 4,)
AcceptsBlob(data) == Len(data) >= 4

\* mutant: the context stays bound after the load
LoadSteps_StaysBound(dir) ==
    <<Step("contextSet", dir), Step("loadAutosave", dir)>>

\* const ScopedContext sc(this); context->patch->loadAutosave(); and the destructor of sc,
\* which runs on every way out of the scope
LoadSteps(dir) ==
    <<Step("contextSet", dir), Step("loadAutosave", dir), Step("contextSet(nullptr)", dir)>>

\* setState("patch", value) from line 833 on, for the decoded bytes `data`; `beyond` is the
\* byte found past the end of a 4-byte blob.  The result lists the steps in the order the
\* code takes them, the directory and the engine's patch at the return, whether the
\* context was bound, the exception caught and the message logged, the exception that
\* leaves the call (none: both try blocks catch everything) and what the caller is handed
\* (nothing: setState returns void).
\* mutant: the call goes on to the load step whatever became of the directory
ReachesLoad_Always(raw, canOpen, unpackThrew) == TRUE

\* DISTRHO_SAFE_ASSERT_RETURN(f != nullptr,) on the raw path and
\* DISTRHO_SAFE_EXCEPTION_RETURN("setState unarchiveToDirectory",) on the archive path
\* return before the ScopedContext and loadAutosave
ReachesLoad(raw, canOpen, unpackThrew) == IF raw THEN canOpen ELSE ~unpackThrew

PatchCall(data, beyond, io) ==
    LET d1      == IF io.removed THEN removeRecursively(autosaveDir) ELSE autosaveDir
        d2      == IF io.created THEN createDirectories(d1) ELSE d1
        clear   == <<Step("removeRecursively", d1), Step("createDirectories", d2)>>
        raw     == MagicDiffers(data, beyond)
        canOpen == io.opened /\ d2.exists
        d3      == IF canOpen THEN [d2 EXCEPT !.files = ("patch.json" :> <<>>) @@ @] ELSE d2
        d4      == [d3 EXCEPT !.files = ("patch.json" :> WrittenBytes(data, io.written)) @@ @]
        unpack  == unarchiveToDirectory(data, d2)
        filled  == IF raw THEN (IF canOpen THEN d4 ELSE d3) ELSE unpack.dir
        fill    == IF raw
                   THEN <<Step("fopen", d3)>> \o
                        (IF canOpen THEN <<Step("fwrite", d4)>> ELSE <<>>)
                   ELSE <<Step("unarchiveToDirectory", unpack.dir)>>
        loads   == ReachesLoad(raw, canOpen, unpack.threw)
        threw   == LoadThrows(filled, io.accepted)
    IN  IF ~AcceptsBlob(data)
        THEN [op |-> "setState", valid |-> TRUE, data |-> data, raw |-> FALSE,
              steps |-> <<>>, dir |-> autosaveDir, patch |-> enginePatch,
              bound |-> FALSE, caught |-> "", logged |-> "data.size() >= 4",
              escaped |-> "", reported |-> "none"]
        ELSE [op |-> "setState", valid |-> TRUE, data |-> data, raw |-> raw,
              steps |-> clear \o fill \o (IF loads THEN LoadSteps(filled) ELSE <<>>),
              dir |-> filled,
              patch |-> IF loads /\ ~threw THEN filled.files ELSE enginePatch,
              bound |-> loads,
              caught |-> IF ~raw /\ unpack.threw THEN "unarchiveToDirectory"
                         ELSE IF loads /\ threw THEN "loadAutosave" ELSE "",
              logged |-> IF raw /\ ~canOpen THEN "f != nullptr"
                         ELSE IF ~raw /\ unpack.threw THEN "setState unarchiveToDirectory"
                         ELSE IF threw THEN "setState loadAutosave" ELSE "",
              escaped |-> "", reported |-> "none"]

\* setState returns void and lets no exception out: the host gets nothing back
SetState(key, value, beyond, io) ==
    /\ ~fault
    /\ pc # "destroyed"
    /\ IF key = "comment"
       THEN /\ fState' = [fState EXCEPT !.comment = value]
            /\ stateCall' = NoStateCall
            /\ UNCHANGED <<rackContext, autosaveDir, enginePatch>>
       ELSE IF key = "screenshot"
       THEN /\ fState' = [fState EXCEPT !.screenshot = value]
            /\ stateCall' = NoStateCall
            /\ UNCHANGED <<rackContext, autosaveDir, enginePatch>>
       ELSE IF key # "patch"
       THEN /\ stateCall' = NoStateCall
            /\ UNCHANGED <<fState, rackContext, autosaveDir, enginePatch>>
       ELSE IF NoDirectory(fAutosavePath)
       THEN /\ stateCall' = [NoStateCall EXCEPT !.op = "setState"]
            /\ UNCHANGED <<fState, rackContext, autosaveDir, enginePatch>>
       ELSE \E c \in {PatchCall(d_getChunkFromBase64String(value), beyond, io)} :
            /\ autosaveDir' = c.dir
            /\ enginePatch' = c.patch
            /\ rackContext' = BindingAfter(c.steps, rackContext)
            /\ stateCall' = [f \in DOMAIN NoStateCall |-> c[f]]
            /\ UNCHANGED fState
    /\ UNCHANGED <<context, renderVars, fAutosavePath, returned, processVars, midiVars>>

(***************************************************************************)
(* ~CardinalPlugin and the remote-control load handler                     *)
(***************************************************************************)
\* mutant: the directory is removed before the context is deleted
DestructorOps_RemoveFirst ==
    <<"removeRecursively", "contextSet", "clear", "Engine_setAboutToClose", "delete context",
      "contextSet(nullptr)">>

\* ~CardinalPlugin (headless build), lines 287-300, in the order of the code
DestructorOps ==
    <<"contextSet", "clear", "Engine_setAboutToClose", "delete context",
      "contextSet(nullptr)", "removeRecursively">>

\* the operations `ops` of the destructor performed one after the other; removeRecursively
\* is called only for a non-empty path; `removed`: it removes the directory
RECURSIVE DestructorCall(_, _, _, _)
DestructorCall(ops, s, path, removed) ==
    IF ops = <<>> THEN s
    ELSE LET op  == Head(ops)
             dir == IF op = "removeRecursively" /\ removed
                    THEN removeRecursively(s.dir) ELSE s.dir
             t   == [s EXCEPT !.steps = Append(@, Step(op, dir)), !.dir = dir]
         IN  DestructorCall(Tail(ops),
                            IF op = "removeRecursively" /\ NoDirectory(path) THEN s ELSE t,
                            path, removed)

\* the host destroys the instance; it does so outside run()
Destructor(removed) ==
    /\ ~fault
    /\ pc = "idle"
    /\ pc' = "destroyed"
    /\ \E c \in {DestructorCall(DestructorOps, GetStart(autosaveDir), fAutosavePath, removed)} :
        /\ autosaveDir' = c.dir
        /\ rackContext' = BindingAfter(c.steps, rackContext)
        /\ stateCall' = [NoStateCall EXCEPT !.op = "destructor", !.steps = c.steps,
                                            !.bound = TRUE]
    /\ enginePatch' = NoFiles
    /\ UNCHANGED <<context, fNextExpectedFrame, fWasBypassed, bypassMidiEvents,
                   fAudioBufferCopy, mem, fault, call, prev, activatedSinceRun,
                   edgeInjections, lostCopy, fAutosavePath, fState, returned, processVars, midiVars>>

\* mutant: the handler loads the blob without touching the directory
OscLoadOps_LoadOnly == <<"contextSet", "loadAutosave", "contextSet(nullptr)">>

\* osc_load_handler, CardinalCommon.cpp lines 236-248, in the order of the code
OscLoadOps ==
    <<"contextSet", "removeRecursively", "createDirectories", "unarchiveToDirectory",
      "loadAutosave", "contextSet(nullptr)">>

\* the operations `ops` of the handler performed one after the other on the directory at
\* context->patch->autosavePath; `text` is the answer sent back ("ok" after a load that
\* did not throw, "fail" otherwise); a rack::Exception thrown by unarchiveToDirectory or
\* loadAutosave is caught after the try block, before contextSet(nullptr)
RECURSIVE OscLoadCall(_, _, _, _)
OscLoadCall(ops, s, data, io) ==
    IF ops = <<>> THEN s
    ELSE LET op     == Head(ops)
             unpack == unarchiveToDirectory(data, s.dir)
             dir    == IF op = "removeRecursively" /\ io.removed THEN removeRecursively(s.dir)
                       ELSE IF op = "createDirectories" /\ io.created
                       THEN createDirectories(s.dir)
                       ELSE IF op = "unarchiveToDirectory" THEN unpack.dir
                       ELSE s.dir
             t      == [steps |-> Append(s.steps, Step(op, dir)),
                        dir   |-> dir,
                        data  |-> data,
                        text  |-> IF op = "loadAutosave" /\ ~LoadThrows(dir, io.accepted)
                                  THEN "ok" ELSE s.text,
                        threw |-> \/ s.threw
                                  \/ op = "unarchiveToDirectory" /\ unpack.threw
                                  \/ op = "loadAutosave" /\ LoadThrows(dir, io.accepted)]
         IN  OscLoadCall(Tail(ops), IF s.threw /\ ~RunsOnThrow(op) THEN s ELSE t, data, io)

\* DISTRHO_SAFE_ASSERT_RETURN(size > 4, 0)
OscAcceptsBlob(data) == Len(data) > 4

\* a /load message with the blob `data` arrives for the instance registered as oscPlugin
\* (builds with CARDINAL_INIT_OSC_THREAD); context->patch->autosavePath is fAutosavePath
\* (CardinalPlugin.cpp line 253).  The handler runs on the OSC thread, also while the
\* audio thread is inside run().  Modelled for an instance that has a directory.
OscLoad(data, io) ==
    /\ ~fault
    /\ pc # "destroyed"
    /\ ~NoDirectory(fAutosavePath)
    /\ IF ~OscAcceptsBlob(data)
       THEN /\ stateCall' = [NoStateCall EXCEPT !.op = "osc_load", !.data = data,
                                                !.logged = "size > 4", !.reported = "none"]
            /\ UNCHANGED <<rackContext, autosaveDir, enginePatch>>
       ELSE \E c \in {OscLoadCall(OscLoadOps, [GetStart(autosaveDir) EXCEPT !.text = "fail"],
                                  data, io)} :
            /\ autosaveDir' = c.dir
            /\ enginePatch' = IF c.text = "ok" THEN c.dir.files ELSE enginePatch
            /\ rackContext' = BindingAfter(c.steps, rackContext)
            /\ stateCall' = [NoStateCall EXCEPT !.op = "osc_load", !.data = data,
                                                !.steps = c.steps, !.bound = TRUE,
                                                !.caught = IF c.threw THEN "rack::Exception"
                                                           ELSE "",
                                                !.reported = c.text]
    /\ UNCHANGED <<context, renderVars, fAutosavePath, fState, returned, processVars, midiVars>>

(***************************************************************************)
(* Several instances in one process: the constructor's search for a        *)
(* directory (lines 211-228), the directory steps of setState("patch")     *)
(* (lines 837-861) and the destructor (lines 281-301), statement by        *)
(* statement, each instance on a thread of its own.                        *)
(***************************************************************************)
\* the instance p takes a step that changes its record and the directories
PluginStep(p, record, dirs) ==
    /\ plugins' = [plugins EXCEPT ![p] = record]
    /\ tempDir' = dirs
    /\ UNCHANGED <<context, rackContext, renderVars, stateVars, midiVars>>

\* for (int i=1;; ++i)
CtorBegin(p) ==
    /\ plugins[p].pc = "none"
    /\ PluginStep(p, [plugins[p] EXCEPT !.pc = "exists", !.i = 1], tempDir)

\* mutant: a candidate that exists ends the search
CtorAfterTest_StopsAtExisting(existed) == "createDirectories"

\* if (! rack::system::exists(trypath)) { ... break; }: an existing candidate sends the
\* loop to the next suffix
CtorAfterTest(existed) == IF existed THEN "exists" ELSE "createDirectories"

\* std::snprintf(...); trypath = join(tmp, uidBuf); rack::system::exists(trypath).
\* `threw`: getTempDirectory, join or exists throws, which DISTRHO_SAFE_EXCEPTION catches
\* outside the loop
CtorExists(p, threw) ==
    LET me      == plugins[p]
        existed == tempDir[Format04d(me.i)].exists
    IN  /\ me.pc = "exists"
        /\ IF threw
           THEN PluginStep(p, [me EXCEPT !.pc = "live"], tempDir)
           ELSE /\ existed => me.i < MaxCandidates
                /\ PluginStep(p, [me EXCEPT !.pc = CtorAfterTest(existed),
                                            !.i = IF existed THEN me.i + 1 ELSE me.i,
                                            !.tested = Append(@, [i |-> me.i,
                                                                  existed |-> existed])],
                              tempDir)

\* mutant: the answer of createDirectories is not looked at
Adopted_Unchecked(created, trypath) == trypath

\* if (rack::system::createDirectories(trypath)) fAutosavePath = trypath;
Adopted(created, trypath) == IF created THEN trypath ELSE EmptyPath

\* rack::system::createDirectories(trypath) answers true when it created the directory;
\* `ok`: it can create it.  It answers false for a directory that exists by now.
CtorCreateDirectories(p, ok) ==
    LET me      == plugins[p]
        trypath == Format04d(me.i)
        created == ok /\ ~tempDir[trypath].exists
    IN  /\ me.pc = "createDirectories"
        /\ PluginStep(p, [me EXCEPT !.pc = "live",
                                    !.path = Adopted(created, trypath),
                                    !.created = IF created THEN "true" ELSE "false"],
                      IF created THEN [tempDir EXCEPT ![trypath] = createDirectories(@)]
                      ELSE tempDir)

\* the path the instance works on is its own fAutosavePath
HasPath(p) == plugins[p].path # EmptyPath

\* setState("patch"): rack::system::removeRecursively(fAutosavePath)
SetRemoveRecursively(p) ==
    /\ plugins[p].pc = "live"
    /\ HasPath(p)
    /\ PluginStep(p, [plugins[p] EXCEPT !.pc = "setCreate"],
                  [tempDir EXCEPT ![plugins[p].path] = removeRecursively(@)])

\* setState("patch"): rack::system::createDirectories(fAutosavePath), result not looked at
SetCreateDirectories(p) ==
    /\ plugins[p].pc = "setCreate"
    /\ PluginStep(p, [plugins[p] EXCEPT !.pc = "setFill"],
                  [tempDir EXCEPT ![plugins[p].path] = createDirectories(@)])

\* setState("patch"): the blob is written or unarchived into the directory and loaded
SetFill(p) ==
    /\ plugins[p].pc = "setFill"
    /\ PluginStep(p, [plugins[p] EXCEPT !.pc = "live"],
                  [tempDir EXCEPT ![plugins[p].path] =
                       IF @.exists THEN [@ EXCEPT !.files = TemplatePatch] ELSE @])

\* ~CardinalPlugin: { ScopedContext sc(this); context->patch->clear(); ...; delete context; }
DtorDeleteContext(p) ==
    /\ plugins[p].pc = "live"
    /\ PluginStep(p, [plugins[p] EXCEPT !.pc = "dtorRemove"], tempDir)

\* ~CardinalPlugin: if (! fAutosavePath.empty()) rack::system::removeRecursively(...)
DtorRemoveRecursively(p) ==
    /\ plugins[p].pc = "dtorRemove"
    /\ PluginStep(p, [plugins[p] EXCEPT !.pc = "destroyed"],
                  IF HasPath(p)
                  THEN [tempDir EXCEPT ![plugins[p].path] = removeRecursively(@)]
                  ELSE tempDir)

(***************************************************************************)
(* run(): transport synchronisation                                        *)
(***************************************************************************)
\* mutant: the playing flag is not tested
ResetBeforeSuppression_IgnoresPlaying(expected, tp) ==
    tp.frame = 0 \/ d_isDiffHigherThanLimit(expected, tp.frame, 2)

\* mutant: every difference from the expected frame counts, not only one above 2
ResetBeforeSuppression_AnyDifference(expected, tp) ==
    tp.playing /\ (tp.frame = 0 \/ expected # tp.frame)

\* bool reset = timePos.playing && (timePos.frame == 0 || d_isDiffHigherThanLimit(...))
ResetBeforeSuppression(expected, tp) ==
    tp.playing /\ (tp.frame = 0 \/ d_isDiffHigherThanLimit(expected, tp.frame, 2))

\* mutant: the previous playing flag is not compared
SuppressReset_IgnoresPlaying(ctx, tp) ==
    tp.frame = 0 /\ ctx.frame = 0

\* "ignore hosts which cannot supply time frame position"
SuppressReset(ctx, tp) ==
    ctx.playing = tp.playing /\ tp.frame = 0 /\ ctx.frame = 0

ComputeReset(ctx, expected, tp) ==
    IF SuppressReset(ctx, tp) THEN FALSE ELSE ResetBeforeSuppression(expected, tp)

\* mutant: the block length is not added
NextExpectedFrame_NoBlockLength(tp, frames) ==
    IF tp.playing THEN tp.frame ELSE 0

\* fNextExpectedFrame = timePos.playing ? timePos.frame + frames : 0
NextExpectedFrame(tp, frames) ==
    IF tp.playing THEN tp.frame + frames ELSE 0

\* the musical-time fields written when timePos.bbt.valid; with integer snapshot values
\* ticksPerClock = ticksPerBeat / beatType, ticksPerFrame = 1 / samplesPerTick and
\* tickClock = fmod(tick, ticksPerClock) are the fractions below
CopyBBT(ctx, bbt) ==
    [ctx EXCEPT !.bar = bbt.bar,
                !.beat = bbt.beat,
                !.beatsPerBar = bbt.beatsPerBar,
                !.beatType = bbt.beatType,
                !.barStartTick = bbt.barStartTick,
                !.beatsPerMinute = bbt.beatsPerMinute,
                !.tick = bbt.tick,
                !.ticksPerBeat = bbt.ticksPerBeat,
                !.ticksPerClock = Frac(bbt.ticksPerBeat, bbt.beatType),
                !.ticksPerFrame = Frac(bbt.beatsPerMinute * bbt.ticksPerBeat,
                                       60 * HostSampleRate),
                !.tickClock = Frac((bbt.tick * bbt.beatType) % bbt.ticksPerBeat,
                                   bbt.beatType)]

\* mutant: context->frame is not updated
SyncTransport_KeepsFrame(ctx, expected, tp) ==
    LET c1 == [ctx EXCEPT !.playing = tp.playing,
                          !.bbtValid = tp.bbt.valid]
        c2 == IF tp.bbt.valid THEN CopyBBT(c1, tp.bbt) ELSE c1
    IN  [c2 EXCEPT !.reset = ComputeReset(ctx, expected, tp)]

\* mutant: the musical-time fields are copied from a snapshot that is not valid, too
SyncTransport_CopiesInvalid(ctx, expected, tp) ==
    LET c1 == [ctx EXCEPT !.playing = tp.playing,
                          !.bbtValid = tp.bbt.valid,
                          !.frame = tp.frame]
    IN  [CopyBBT(c1, tp.bbt) EXCEPT !.reset = ComputeReset(ctx, expected, tp)]

SyncTransport(ctx, expected, tp) ==
    LET c1 == [ctx EXCEPT !.playing = tp.playing,
                          !.bbtValid = tp.bbt.valid,
                          !.frame = tp.frame]
        c2 == IF tp.bbt.valid THEN CopyBBT(c1, tp.bbt) ELSE c1
    IN  [c2 EXCEPT !.reset = ComputeReset(ctx, expected, tp)]

(***************************************************************************)
(* run(): buffer views                                                     *)
(***************************************************************************)
\* inputs != outputs && (inputs == nullptr || inputs[0] != outputs[0])
SeparateBuffers(inArr, outArr, inputs, outputs) ==
    inArr # outArr /\ (inArr = NullPtr \/ inputs[1] # outputs[1])

\* the memcpy loop of the in-place path: channel i is copied when inputs[i] is not null
CopyInputs(copy, inputs, m, frames) ==
    [copy EXCEPT !.data =
        [i \in 1..NumInputs |->
            IF inputs[i] # NullPtr
            THEN [k \in 1..copy.size |->
                    IF k <= frames THEN m[inputs[i]][k] ELSE copy.data[i][k]]
            ELSE copy.data[i]]]

\* the memcpy loop writes through a null fAudioBufferCopy or past the end of a copy
CopyFaults(copy, inputs, frames) ==
    /\ \E i \in 1..NumInputs : inputs[i] # NullPtr
    /\ (~copy.alloc \/ frames > copy.size)

\* mutant: only the first output channel is zeroed
ZeroOutputs_OnlyFirstOutput(m, outputs, frames) ==
    [a \in Addr |->
        IF outputs[1] = a
        THEN [k \in 1..Len(m[a]) |-> IF k <= frames THEN 0 ELSE m[a][k]]
        ELSE m[a]]

\* the memset loop: the first `frames` samples of every non-null output are zeroed
ZeroOutputs(m, outputs, frames) ==
    [a \in Addr |->
        IF \E i \in 1..NumOutputs : outputs[i] = a
        THEN [k \in 1..Len(m[a]) |-> IF k <= frames THEN 0 ELSE m[a][k]]
        ELSE m[a]]

\* the samples the engine reads through context->dataIns during stepBlock
EngineInputs(view, copy, m, frames) ==
    [i \in 1..NumInputs |->
        IF view.kind = "copy"
        THEN IF copy.alloc THEN SubSeq(copy.data[i], 1, frames) ELSE <<>>
        ELSE IF view.kind = "host" /\ view.ptrs[i] # NullPtr
        THEN SubSeq(m[view.ptrs[i]], 1, frames)
        ELSE <<>>]

(***************************************************************************)
(* run(): bypass handling                                                  *)
(***************************************************************************)
\* mutant: the events are injected in every bypassed block
SelectMidiEvents_EveryBypassedBlock(bypassed, wasBypassed, midiEvents, midiEventCount) ==
    IF bypassed
    THEN [midiEvents |-> [src |-> "bypass", events |-> <<>>], midiEventCount |-> 16]
    ELSE [midiEvents |-> [src |-> "host", events |-> midiEvents],
          midiEventCount |-> midiEventCount]

\* mutant: the block that leaves bypass drops the host's events
SelectMidiEvents_DropsOnLeaving(bypassed, wasBypassed, midiEvents, midiEventCount) ==
    IF bypassed
    THEN IF wasBypassed # bypassed
         THEN [midiEvents |-> [src |-> "bypass", events |-> <<>>], midiEventCount |-> 16]
         ELSE [midiEvents |-> [src |-> "null", events |-> <<>>], midiEventCount |-> 0]
    ELSE IF wasBypassed # bypassed
         THEN [midiEvents |-> [src |-> "null", events |-> <<>>], midiEventCount |-> 0]
         ELSE [midiEvents |-> [src |-> "host", events |-> midiEvents],
               midiEventCount |-> midiEventCount]

\* the MIDI event list and count handed to the engine
SelectMidiEvents(bypassed, wasBypassed, midiEvents, midiEventCount) ==
    IF bypassed
    THEN IF wasBypassed # bypassed
         THEN [midiEvents |-> [src |-> "bypass", events |-> <<>>], midiEventCount |-> 16]
         ELSE [midiEvents |-> [src |-> "null", events |-> <<>>], midiEventCount |-> 0]
    ELSE [midiEvents |-> [src |-> "host", events |-> midiEvents],
          midiEventCount |-> midiEventCount]

\* the events the engine reads through context->midiEvents / midiEventCount
DeliveredEvents ==
    IF context.midiEvents.src = "bypass"
    THEN [i \in 1..context.midiEventCount |-> bypassMidiEvents[i - 1]]
    ELSE IF context.midiEvents.src = "host"
    THEN SubSeq(context.midiEvents.events, 1, context.midiEventCount)
    ELSE <<>>

(***************************************************************************)
(* run(): from entry to the call of context->engine->stepBlock(frames)     *)
(***************************************************************************)
\* mutant: the engine is stepped by the maximum block length
StepBlockCalls_BufferSize(frames) == <<getBufferSize>>

\* context->engine->stepBlock(frames): the arguments of the calls of stepBlock that one
\* run() makes
StepBlockCalls(frames) == <<frames>>

RunBegin(tp, frames, inArr, outArr, inputs, outputs, hostMem, midiEvents, midiEventCount) ==
    LET bypassed == context.bypassed
        separate == SeparateBuffers(inArr, outArr, inputs, outputs)
        copy     == IF separate \/ ~fAudioBufferCopy.alloc
                    THEN fAudioBufferCopy
                    ELSE CopyInputs(fAudioBufferCopy, inputs, hostMem, frames)
        dataIns  == IF separate THEN HostView(inputs) ELSE CopyView
        memStep  == ZeroOutputs(hostMem, outputs, frames)
        sel      == SelectMidiEvents(bypassed, fWasBypassed, midiEvents, midiEventCount)
        ctxT     == SyncTransport(context, fNextExpectedFrame, tp)
    IN
    /\ pc = "idle"
    /\ ~fault
    /\ context.processCounter < MaxBlocks
    /\ inArr = outArr => inputs = outputs
    /\ rackContext' = "this"
    /\ IF ~separate /\ CopyFaults(fAudioBufferCopy, inputs, frames)
       THEN /\ fault' = TRUE
            /\ UNCHANGED <<context, fNextExpectedFrame, fWasBypassed, bypassMidiEvents,
                           fAudioBufferCopy, mem, pc, call, prev, activatedSinceRun,
                           edgeInjections, lostCopy, stateVars, processVars, midiVars>>
       ELSE /\ context' = [ctxT EXCEPT !.dataIns = dataIns,
                                       !.dataOuts = HostView(outputs),
                                       !.midiEvents = sel.midiEvents,
                                       !.midiEventCount = sel.midiEventCount,
                                       !.processCounter = @ + 1]
            /\ fNextExpectedFrame' = NextExpectedFrame(tp, frames)
            /\ fAudioBufferCopy' = copy
            /\ mem' = memStep
            /\ pc' = "stepBlock"
            /\ call' = [valid |-> TRUE, tp |-> tp, frames |-> frames,
                        inArr |-> inArr, outArr |-> outArr,
                        inputs |-> inputs, outputs |-> outputs, hostMem |-> hostMem,
                        midiEvents |-> midiEvents, midiEventCount |-> midiEventCount,
                        bypassed |-> bypassed,
                        expected |-> fNextExpectedFrame,
                        ctxPlaying |-> context.playing, ctxFrame |-> context.frame,
                        wasBypassed |-> fWasBypassed,
                        counter |-> context.processCounter,
                        afterActivate |-> activatedSinceRun,
                        engineIns |-> EngineInputs(dataIns, copy, memStep, frames),
                        memAtStep |-> memStep,
                        stepBlock |-> StepBlockCalls(frames)]
            /\ prev' = IF call.valid
                       THEN [valid |-> TRUE, playing |-> call.tp.playing,
                             frame |-> call.tp.frame, frames |-> call.frames,
                             bypassed |-> call.bypassed]
                       ELSE NoPrev
            /\ activatedSinceRun' = FALSE
            /\ edgeInjections' = IF ~bypassed THEN 0
                                 ELSE IF sel.midiEvents.src = "bypass"
                                 THEN edgeInjections + 1
                                 ELSE edgeInjections
            /\ UNCHANGED <<fWasBypassed, bypassMidiEvents, fault, lostCopy, stateVars, processVars, midiVars>>

(***************************************************************************)
(* run(): stepBlock returns, fWasBypassed = bypassed, run() returns        *)
(***************************************************************************)
\* what the engine leaves in the output buffers: per output port a sample value for the
\* whole block, or -1 for a port it does not write
EngineOutputs == [1..NumOutputs -> {-1, MaxSample}]
NoEngineOutput == [i \in 1..NumOutputs |-> -1]

WriteOutputs(m, outputs, frames, out) ==
    [a \in Addr |->
        LET writers == {i \in 1..NumOutputs : outputs[i] = a /\ out[i] # -1}
            last == CHOOSE i \in writers : \A j \in writers : j <= i
        IN  IF writers = {} THEN m[a]
            ELSE [k \in 1..Len(m[a]) |-> IF k <= frames THEN out[last] ELSE m[a][k]]]

\* mutant: the shared bypass flag is read again for fWasBypassed
RunEnd_RereadsBypassed(out) ==
    /\ pc = "stepBlock"
    /\ ~fault
    /\ mem' = WriteOutputs(mem, call.outputs, call.frames, out)
    /\ fWasBypassed' = context.bypassed
    /\ pc' = "idle"
    /\ UNCHANGED <<context, fNextExpectedFrame, bypassMidiEvents, fAudioBufferCopy,
                   rackContext, fault, call, prev, activatedSinceRun, edgeInjections,
                   lostCopy, stateVars, processVars, midiVars>>

RunEnd(out) ==
    /\ pc = "stepBlock"
    /\ ~fault
    /\ mem' = WriteOutputs(mem, call.outputs, call.frames, out)
    /\ fWasBypassed' = call.bypassed
    /\ pc' = "idle"
    /\ UNCHANGED <<context, fNextExpectedFrame, bypassMidiEvents, fAudioBufferCopy,
                   rackContext, fault, call, prev, activatedSinceRun, edgeInjections,
                   lostCopy, stateVars, processVars, midiVars>>

(***************************************************************************)
(* Specifications.  Each draws the arguments of run() from the part of the *)
(* input space its claims are about and fixes the rest.                    *)
(***************************************************************************)
\* transport: every playing flag, frame position and block length, with one valid and one
\* invalid musical-time snapshot; separate silent buffers, no MIDI
TransportTimePositions ==
    [playing : BOOLEAN, frame : FramePositions, bbt : {BBT(FALSE, 1), BBT(TRUE, 2)}]

TransportRunBegin ==
    \E tp \in TransportTimePositions, frames \in BlockLens :
        RunBegin(tp, frames, 1, 2, <<1, 1>>, <<2, 3>>, SilentMemory, <<>>, 0)

TransportRunEnd == RunEnd(NoEngineOutput)

\* the host activates a plugin that is not active (SpecAudio and SpecBypass also activate
\* an active one)
TransportActivate == ~fAudioBufferCopy.alloc /\ Activate(0)

TransportNext ==
    \/ TransportRunBegin
    \/ TransportRunEnd
    \/ TransportActivate

\* the bypass parameter is never set here: it starts, and stays, off
TransportInit == Init /\ ~context.bypassed /\ fAutosavePath = AutosavePath

SpecTransport == TransportInit /\ [][TransportNext]_vars

\* bypass: every host MIDI list and every change of the bypass parameter, stopped transport
BypassRunBegin ==
    \E midiEvents \in HostMidiLists :
        RunBegin(StoppedTimePosition, 1, 1, 2, <<1, 1>>, <<2, 3>>, SilentMemory,
                 midiEvents, Len(midiEvents))

BypassSetParameterValue ==
    \E index \in {0, kModuleParameters, kModuleParameters + 1}, value \in ParamValues :
        SetParameterValue(index, value)

BypassActivate == Activate(0)

BypassNext ==
    \/ BypassRunBegin
    \/ TransportRunEnd
    \/ BypassActivate
    \/ Deactivate
    \/ BypassSetParameterValue

SpecBypass == Init /\ [][BypassNext]_vars

\* every operation of the plugin, with one host event list, the two ends of the parameter
\* range, one comment text and the archive getState produces for a patch with a module
StateKeys == {"comment", "screenshot", "patch", "windowSize"}
RawPatch == <<123, 34, 120, 34, 125>>
ModuleArchive == archiveDirectory(FlushToAutosave(ModulePatch))

PluginRunBegin ==
    RunBegin(StoppedTimePosition, 1, 1, 2, <<1, 1>>, <<2, 3>>, SilentMemory,
             <<NoteOn>>, 1)

PluginSetParameterValue ==
    \E value \in {0, 10} : SetParameterValue(kModuleParameters, value)

PluginGetState ==
    \E key \in {"comment", "patch"} : GetState(key, TRUE)

PluginSetState ==
    \/ SetState("comment", <<7, 8>>, 0, IoOk)
    \/ SetState("patch", asBase64(ModuleArchive), 0, IoOk)

PluginNext ==
    \/ PluginRunBegin
    \/ TransportRunEnd
    \/ TransportActivate
    \/ Deactivate
    \/ PluginSetParameterValue
    \/ PluginGetState
    \/ PluginSetState

PluginInit == Init /\ ~context.playing /\ context.frame = 0

SpecPlugin == PluginInit /\ [][PluginNext]_vars

\* the last call on the control thread was a getState("patch") that got to its directory
GetPatchCall == stateCall.op = "getState" /\ stateCall.bound

\* patch state: every key; as decoded patch values a raw JSON patch, a raw patch of 4
\* bytes, the archive getState produces, a frame written with a checksum (descriptor 4),
\* an archive cut inside its second entry, the bare 4-byte signature and a 2-byte blob;
\* the byte past a 4-byte blob is 0 or not; every system call works, or exactly one fails;
\* the host also hands back the text the last getState returned
StateBlobs ==
    { RawPatch,
      <<123, 34, 34, 125>>,
      ModuleArchive,
      ZstdFrame(4, TemplatePatch),
      SubSeq(ModuleArchive, 1, Len(ModuleArchive) - 2),
      SubSeq(zstdMagic, 1, 4),
      <<123, 125>> }

StateIo ==
    { io \in IoOutcomes :
        Cardinality({ f \in DOMAIN IoOk : io[f] # IoOk[f] }) <= 1 }

StateGetState ==
    \E key \in StateKeys, archived \in BOOLEAN : GetState(key, archived)

StateSetState ==
    \/ SetState("windowSize", NoText, 0, IoOk)
    \/ \E blob \in StateBlobs, io \in StateIo :
        \E beyond \in (IF Len(blob) = 4 THEN {0, 1} ELSE {0}) :
            SetState("patch", asBase64(blob), beyond, io)
    \/ /\ GetPatchCall
       /\ returned # NoText
       /\ \E io \in StateIo : SetState("patch", returned, 0, io)

\* the audio thread renders one block
StateRunBegin ==
    /\ context.processCounter = 0
    /\ RunBegin(StoppedTimePosition, 1, 1, 2, <<1, 1>>, <<2, 3>>, SilentMemory, <<>>, 0)

StateNext ==
    \/ StateGetState
    \/ StateSetState
    \/ StateRunBegin
    \/ TransportRunEnd

StateInit == PluginInit /\ ~context.bypassed

SpecState == StateInit /\ [][StateNext]_vars

\* audio buffers: input channel i is null or the buffer at address i; output channel i is
\* null, the same buffer (in place) or the buffer at address NumInputs + i; the pointer
\* arrays are the same or distinct; the block is one sample or the whole buffer long; the
\* host buffers hold nonzero samples that differ from block to block
AudioInputs ==
    { p \in [1..NumInputs -> Ptr] : \A i \in 1..NumInputs : p[i] \in {NullPtr, i} }
AudioOutputs ==
    { p \in [1..NumOutputs -> Ptr] :
        \A i \in 1..NumOutputs : p[i] \in {NullPtr, i, NumInputs + i} }

AudioRunBegin ==
    /\ context.processCounter < MaxAudioBlocks
    /\ \E outArr \in {1, 2}, inputs \in AudioInputs, outputs \in AudioOutputs,
          frames \in {1, MaxBlockLen} :
           RunBegin(StoppedTimePosition, frames, 1, outArr, inputs, outputs,
                    HostMemory(context.processCounter), <<>>, 0)

AudioRunEnd == \E out \in EngineOutputs : RunEnd(out)

\* the fresh scratch arrays hold zeros or something else
AudioActivate == \E fill \in {0, MaxSample} : Activate(fill)

AudioNext ==
    \/ AudioRunBegin
    \/ AudioRunEnd
    \/ AudioActivate
    \/ Deactivate

\* the transport is stopped and the bypass parameter off throughout
AudioInit ==
    Init /\ ~context.bypassed /\ ~context.playing /\ context.frame = 0
         /\ fAutosavePath = AutosavePath

SpecAudio == AudioInit /\ [][AudioNext]_vars

\* the life of one instance, with or without a directory, up to its destruction: the
\* host saves and restores the patch, a remote /load message arrives, one block is
\* rendered, the instance is destroyed
LifeBlobs == { ModuleArchive, RawPatch, <<123, 125>> }

LifeGetState == \E archived \in BOOLEAN : GetState("patch", archived)

LifeSetState == \E blob \in LifeBlobs : SetState("patch", asBase64(blob), 0, IoOk)

LifeOscLoad ==
    \E data \in LifeBlobs, io \in {IoOk, [IoOk EXCEPT !.accepted = FALSE]} :
        OscLoad(data, io)

LifeDestructor == \E removed \in BOOLEAN : Destructor(removed)

LifeNext ==
    \/ LifeGetState
    \/ LifeSetState
    \/ LifeOscLoad
    \/ StateRunBegin
    \/ TransportRunEnd
    \/ LifeDestructor

SpecLife == StateInit /\ [][LifeNext]_vars

\* the scratch buffers over the life of one instance: activate(), deactivate() and blocks
\* in any order, then the destructor
ScratchNext ==
    \/ AudioRunBegin
    \/ AudioRunEnd
    \/ AudioActivate
    \/ Deactivate
    \/ LifeDestructor

SpecScratch == AudioInit /\ [][ScratchNext]_vars

\* MIDI output: one block is rendered while the bypass parameter is switched on and off;
\* a module sends a message with every first byte from 0xF0 on, one of each kind of
\* channel message and two data bytes as first byte, cut to every length from 0 to 4,
\* on channel 0, 2, 15 or 16, at a negative frame, frame 0 or the last frame of a block
MidiFirstBytes == (240..255) \cup {0, 127, 128, 145, 160, 176, 192, 209, 224}
MidiTails == { <<>>, <<64>>, <<64, 127>>, <<64, 127, 1>> }
MidiMessageBytes == { <<>> } \cup { <<b>> \o t : b \in MidiFirstBytes, t \in MidiTails }
MidiFrames == { -1, 0, MaxBlockLen }
MidiChannels == { 0, 2, 15, 16 }
MidiMessages == [bytes : MidiMessageBytes, frame : MidiFrames]

MidiRunBegin ==
    /\ context.processCounter = 0
    /\ RunBegin(StoppedTimePosition, 1, 1, 2, <<1, 1>>, <<2, 3>>, SilentMemory, <<>>, 0)

MidiSetParameterValue ==
    \E value \in {0, 10} : SetParameterValue(kModuleParameters, value)

\* one message is sent during the block
MidiWriteMidiMessage ==
    /\ ~midiCall.valid
    /\ \E message \in MidiMessages, channel \in MidiChannels, fill \in {0, 170} :
           WriteMidiMessage(message, channel, fill)

MidiNext ==
    \/ MidiRunBegin
    \/ TransportRunEnd
    \/ MidiSetParameterValue
    \/ MidiWriteMidiMessage

MidiInit == PluginInit /\ fAutosavePath = AutosavePath

SpecMidi == MidiInit /\ [][MidiNext]_vars

\* several instances of one process, each constructed, restored any number of times and
\* destroyed on a thread of its own; candidate directories may exist before the first
\* constructor runs (left by another process)
ProcessCtorBegin == \E p \in Instances : CtorBegin(p)
ProcessCtorExists == \E p \in Instances, threw \in BOOLEAN : CtorExists(p, threw)
ProcessCtorCreateDirectories ==
    \E p \in Instances, ok \in BOOLEAN : CtorCreateDirectories(p, ok)
ProcessSetRemoveRecursively == \E p \in Instances : SetRemoveRecursively(p)
ProcessSetCreateDirectories == \E p \in Instances : SetCreateDirectories(p)
ProcessSetFill == \E p \in Instances : SetFill(p)
ProcessDtorDeleteContext == \E p \in Instances : DtorDeleteContext(p)
ProcessDtorRemoveRecursively == \E p \in Instances : DtorRemoveRecursively(p)

ProcessNext ==
    \/ ProcessCtorBegin
    \/ ProcessCtorExists
    \/ ProcessCtorCreateDirectories
    \/ ProcessSetRemoveRecursively
    \/ ProcessSetCreateDirectories
    \/ ProcessSetFill
    \/ ProcessDtorDeleteContext
    \/ ProcessDtorRemoveRecursively

ProcessInit ==
    /\ InstanceInit
    /\ ~context.playing /\ context.frame = 0 /\ ~context.bypassed
    /\ fAutosavePath = ""
    /\ tempDir \in [CandidatePaths -> {AbsentDir, EmptyDir}]
    /\ plugins = [p \in Instances |-> NoPlugin]

SpecProcess == ProcessInit /\ [][ProcessNext]_vars

(***************************************************************************)
(* Claims about the transport synchronisation (SpecTransport).             *)
(* `call` holds the time position of the current or last block, the        *)
(* expected frame and the context's playing flag and frame as run() found  *)
(* them; `prev` holds the block rendered before it.                        *)
(***************************************************************************)
AbsDiff(a, b) == IF a >= b THEN a - b ELSE b - a

\* the block is a discontinuity by the rule |expected - frame| > 2 or frame == 0
Discontinuity ==
    call.tp.frame = 0 \/ AbsDiff(call.expected, call.tp.frame) > 2

\* the host repeats frame 0: the context still holds playing = true and frame 0, left by
\* the previous block (or found at construction by the first block)
RepeatsFrameZero ==
    call.tp.frame = 0 /\ call.ctxPlaying /\ call.ctxFrame = 0

\* C1 as stated: a playing block with |expected - frame| > 2 or frame == 0 has reset = true
\* (taken for a block that follows another block, so that its refutation does not rest on
\* the values the context holds after construction)
C1_AsStated ==
    (call.valid /\ prev.valid /\ call.tp.playing /\ Discontinuity) => context.reset

\* C1 amended: a playing block with |expected - frame| > 2 or frame == 0 has reset = true,
\* unless its frame is 0 and the context still holds playing = true with frame 0
C1_ResetOnDiscontinuity ==
    (call.valid /\ call.tp.playing /\ Discontinuity /\ ~RepeatsFrameZero) => context.reset

C1_Witness ==
    /\ call.valid /\ prev.valid /\ call.tp.playing
    /\ call.tp.frame # 0 /\ call.expected # 0
    /\ AbsDiff(call.expected, call.tp.frame) > 2
    /\ context.reset

\* C2 as stated: a playing block whose frame equals the expected frame has reset = false
\* (taken for a block that follows another block, as above)
C2_AsStated ==
    (call.valid /\ prev.valid /\ call.tp.playing /\ call.tp.frame = call.expected)
        => ~context.reset

\* C2 amended: a playing block whose frame equals the expected frame and is not 0 has
\* reset = false
C2_NoResetOnExpectedFrame ==
    (call.valid /\ call.tp.playing /\ call.tp.frame = call.expected /\ call.tp.frame # 0)
        => ~context.reset

C2_Witness ==
    /\ call.valid /\ prev.valid /\ call.tp.playing
    /\ call.tp.frame = call.expected /\ call.tp.frame # 0
    /\ ~context.reset

\* C3: reset = true only in a playing block whose frame is 0 or differs from the expected
\* frame by more than 2
C3_ResetOnlyOnDiscontinuity ==
    (call.valid /\ context.reset) => (call.tp.playing /\ Discontinuity)

C3_Witness ==
    /\ call.valid /\ call.tp.playing /\ call.tp.frame # 0
    /\ call.tp.frame # call.expected
    /\ AbsDiff(call.expected, call.tp.frame) <= 2
    /\ ~context.reset

\* C4: a playing block at frame 0 that follows a playing block at frame 0 has reset = false;
\* and a reset the rule asks for is suppressed only when the current frame is 0 and the
\* previous block had the same playing flag and frame 0
C4_SuppressedOnRepeatedFrameZero ==
    /\ (call.valid /\ prev.valid /\ prev.playing /\ prev.frame = 0
            /\ call.tp.playing /\ call.tp.frame = 0)
        => ~context.reset
    /\ (call.valid /\ prev.valid /\ call.tp.playing /\ Discontinuity /\ ~context.reset)
        => (call.tp.frame = 0 /\ prev.playing = call.tp.playing /\ prev.frame = 0)

C4_Witness ==
    /\ call.valid /\ prev.valid /\ prev.playing /\ prev.frame = 0
    /\ call.tp.playing /\ call.tp.frame = 0
    /\ call.counter = 2
    /\ ~context.reset

\* the frame continues the previous block: both playing, frame = previous frame + length
Continuous ==
    /\ call.valid /\ prev.valid
    /\ prev.playing /\ call.tp.playing
    /\ call.tp.frame = prev.frame + prev.frames

\* the expected frame run() stores
StoredExpectedFrame ==
    (call.valid /\ ~activatedSinceRun)
        => fNextExpectedFrame = (IF call.tp.playing THEN call.tp.frame + call.frames ELSE 0)

\* C5 as stated: the stored expected frame is frame + length if playing, else 0; and a
\* block that continues the previous one has reset = false unless its frame is 0
C5_AsStated ==
    /\ StoredExpectedFrame
    /\ (Continuous /\ call.tp.frame # 0) => ~context.reset

\* C5 amended: the same, for blocks with no activate() between them
C5_ContinuousPlaybackNoReset ==
    /\ StoredExpectedFrame
    /\ (Continuous /\ ~call.afterActivate /\ call.tp.frame # 0) => ~context.reset

C5_Witness ==
    /\ Continuous /\ ~call.afterActivate
    /\ call.tp.frame > 2
    /\ call.counter = 2
    /\ fNextExpectedFrame = call.tp.frame + call.frames
    /\ ~context.reset

(***************************************************************************)
(* Claims about the bypass handling (SpecBypass).                          *)
(* call.bypassed is the bypass flag run() read for the current or last     *)
(* block, prev.bypassed the one it read for the block before.              *)
(***************************************************************************)
\* the "all notes off" event of a channel: controller 0x7B, value 0, on status 0xB0 + channel
SoundOffEvent(channel) ==
    [frame |-> 0, size |-> 3, data |-> <<176 + channel, 123, 0, 0>>]

SoundOffEvents == [i \in 1..16 |-> SoundOffEvent(i - 1)]

\* the block enters bypass: the flag is on, and was off in the previous block or there is none
EntersBypass ==
    call.valid /\ call.bypassed /\ (prev.valid => ~prev.bypassed)

\* C6: a block that enters bypass delivers exactly the 16 synthesized events, count 16, and
\* none of the host's events
C6_EdgeDeliversSoundOff ==
    EntersBypass =>
        /\ context.midiEvents.src = "bypass"
        /\ context.midiEventCount = 16
        /\ DeliveredEvents = SoundOffEvents

C6_Witness ==
    /\ EntersBypass /\ prev.valid
    /\ call.midiEvents # <<>>
    /\ DeliveredEvents = SoundOffEvents

\* C7: a block with bypass off delivers exactly the host's event list and count
C7_NotBypassedPassesHostEvents ==
    (call.valid /\ ~call.bypassed) =>
        /\ context.midiEvents = [src |-> "host", events |-> call.midiEvents]
        /\ context.midiEventCount = call.midiEventCount
        /\ DeliveredEvents = call.midiEvents

C7_Witness ==
    /\ call.valid /\ ~call.bypassed
    /\ prev.valid /\ prev.bypassed
    /\ Len(call.midiEvents) = 2
    /\ DeliveredEvents = call.midiEvents

\* C8: a bypassed block that follows a bypassed block delivers no event, and at most one
\* block delivers the synthesized events between two blocks rendered with bypass off
C8_OneInjectionPerEdge ==
    /\ (call.valid /\ prev.valid /\ call.bypassed /\ prev.bypassed) =>
            /\ context.midiEventCount = 0
            /\ DeliveredEvents = <<>>
    /\ edgeInjections <= 1

C8_Witness ==
    /\ call.valid /\ prev.valid /\ call.bypassed /\ prev.bypassed
    /\ call.counter = 2
    /\ edgeInjections = 1
    /\ call.midiEvents # <<>>
    /\ DeliveredEvents = <<>>

\* C9: the bypass event array always holds the 16 events: event i has size 3, status byte
\* 0xB0 + i, second byte 0x7B and third byte 0
C9_BypassEventsFixed ==
    /\ DOMAIN bypassMidiEvents = 0..15
    /\ \A i \in 0..15 :
        /\ bypassMidiEvents[i].size = 3
        /\ bypassMidiEvents[i].data[1] = 176 + i
        /\ bypassMidiEvents[i].data[2] = 123
        /\ bypassMidiEvents[i].data[3] = 0

C9_Witness ==
    /\ call.valid /\ context.midiEvents.src = "bypass"
    /\ pc = "idle"
    /\ fAudioBufferCopy.alloc
    /\ Len(DeliveredEvents) = 16
    /\ DeliveredEvents[16].data[1] = 191
    /\ fState.comment # NoText
    /\ enginePatch = ModulePatch
    /\ d_getChunkFromBase64String(returned) = archiveDirectory(FlushToAutosave(ModulePatch))

(***************************************************************************)
(* Claims about the buffer views (SpecAudio).                              *)
(* call.hostMem is the content of the host's buffers when run() was        *)
(* called, call.engineIns the input samples the engine reads per channel.  *)
(***************************************************************************)
\* channel i is processed in place: one non-null buffer is its input and its output
InPlace(i) ==
    call.inputs[i] # NullPtr /\ call.inputs[i] = call.outputs[i]

\* the first `frames` samples the host had put in the input buffer of channel i
HostInput(i) == SubSeq(call.hostMem[call.inputs[i]], 1, call.frames)

\* C10: for every channel processed in place, the engine reads the samples the host buffer
\* held when run() was called
C10_InPlaceInputPreserved ==
    call.valid => \A i \in 1..NumInputs : InPlace(i) => call.engineIns[i] = HostInput(i)

\* the input pointer array and every input channel pointer differ from their output
\* counterparts
NoPointerShared ==
    /\ call.inArr # call.outArr
    /\ \A i \in 1..NumInputs : call.inputs[i] # call.outputs[i]

\* every channel of the block has an input buffer and an output buffer
AllBuffersPresent ==
    /\ \A i \in 1..NumInputs : call.inputs[i] # NullPtr
    /\ \A i \in 1..NumOutputs : call.outputs[i] # NullPtr

\* C11: the engine is handed the host's input pointers exactly when the pointer arrays
\* differ and no channel shares its input and output pointer; otherwise it is handed the
\* scratch copy.  Stated for the blocks in which no pointer is null, where a null input
\* cannot be mistaken for a shared one.
C11_HostPointersIffNothingShared ==
    call.valid /\ AllBuffersPresent =>
        /\ NoPointerShared <=> context.dataIns = HostView(call.inputs)
        /\ ~NoPointerShared <=> context.dataIns = CopyView

\* the first `frames` samples of the scratch array of channel i
ScratchInput(i) == SubSeq(fAudioBufferCopy.data[i], 1, call.frames)

\* C12: when stepBlock is called the first `frames` samples of every non-null output
\* buffer are zero on both paths, and on the scratch path every non-null input channel was
\* copied before the zeroing: the scratch array holds the samples the host had supplied
C12_OutputsZeroedAfterCopy ==
    pc = "stepBlock" =>
        /\ \A i \in 1..NumOutputs :
             call.outputs[i] # NullPtr =>
                 \A k \in 1..call.frames : mem[call.outputs[i]][k] = 0
        /\ context.dataIns = CopyView =>
             \A i \in 1..NumInputs :
                 call.inputs[i] # NullPtr => ScratchInput(i) = HostInput(i)

\* a full block on the scratch path with channel 1 in place and channel 2 with an output
\* buffer of its own, both holding nonzero samples on entry
C12_Witness ==
    /\ pc = "stepBlock"
    /\ context.dataIns = CopyView
    /\ call.frames = MaxBlockLen
    /\ InPlace(1)
    /\ call.inputs[2] # NullPtr /\ call.outputs[2] = NumInputs + 2
    /\ \A k \in 1..call.frames : HostInput(1)[k] # 0
    /\ \A k \in 1..call.frames : call.hostMem[call.outputs[2]][k] # 0

(***************************************************************************)
(* Claims about the life of the scratch arrays (SpecAudio).                *)
(***************************************************************************)
\* some scratch array is allocated: the one fAudioBufferCopy points to or a lost one
ScratchAllocated == fAudioBufferCopy.alloc \/ lostCopy

\* a step of run(): its first half, its second half, or its faulting entry
RunStep == pc' # pc \/ fault' # fault

\* C13: run() neither allocates nor frees scratch arrays; when deactivate() returns no
\* scratch array is allocated; a deactivate() that finds fAudioBufferCopy null frees nothing
C13_ScratchOnlyInActivateDeactivate ==
    [][ /\ RunStep =>
            /\ fAudioBufferCopy'.alloc = fAudioBufferCopy.alloc
            /\ lostCopy' = lostCopy
        /\ Deactivate => ~ScratchAllocated'
        /\ Deactivate /\ ~fAudioBufferCopy.alloc => lostCopy' = lostCopy
      ]_vars

(***************************************************************************)
(* Claims about setState("patch") (SpecState).                             *)
(* stateCall describes the last setState("patch") that got past the key    *)
(* and path tests, until the next getState or setState; while it does,     *)
(* autosaveDir is the directory as that call left it.                      *)
(***************************************************************************)
\* the step just taken is a setState("patch") call
PatchCallStep == stateCall'.valid /\ stateCall' # stateCall

\* the step just taken is a setState("patch") call with fewer than 4 decoded bytes
ShortBlobStep == PatchCallStep /\ Len(stateCall'.data) < 4

\* the call leaves the directory, the engine's patch and the context binding alone and
\* takes none of the steps that touch them
RejectedWithoutEffect ==
    /\ autosaveDir' = autosaveDir
    /\ enginePatch' = enginePatch
    /\ rackContext' = rackContext
    /\ stateCall'.steps = <<>>
    /\ ~stateCall'.bound

\* C14 as stated: a blob of fewer than 4 decoded bytes changes nothing, loads nothing,
\* binds no context, and a MalformedBlob error is reported to the caller
C14_AsStated ==
    [][ShortBlobStep =>
          RejectedWithoutEffect /\ stateCall'.reported = "MalformedBlob"]_vars

\* C14: a blob of fewer than 4 decoded bytes changes nothing, loads nothing and binds no
\* context; the caller is handed nothing, the rejection is logged as the failed assertion
\* data.size() >= 4
C14_ShortBlobRejected ==
    [][ShortBlobStep =>
          /\ RejectedWithoutEffect
          /\ stateCall'.reported = "none"
          /\ stateCall'.escaped = ""
          /\ stateCall'.logged = "data.size() >= 4"]_vars

\* a 2-byte blob arrived while the directory held the files of a patch
C14_Witness ==
    /\ stateCall.valid
    /\ Len(stateCall.data) = 2
    /\ stateCall.logged = "data.size() >= 4"
    /\ autosaveDir.exists
    /\ DOMAIN autosaveDir.files = {"patch.json", "modules.bin"}
    /\ enginePatch = ModulePatch

\* the operations of the last call, in the order they were performed
StepOps == [i \in 1..Len(stateCall.steps) |-> stateCall.steps[i].op]
Performed(op) == \E i \in 1..Len(StepOps) : StepOps[i] = op
Positions(op) == { i \in 1..Len(StepOps) : StepOps[i] = op }

\* the last call was handed at least 4 decoded bytes
AcceptedCall == stateCall.valid /\ Len(stateCall.data) >= 4

\* the first 4 bytes are the compressed-archive signature 0x28 0xB5 0x2F 0xFD
HasSignature(data) == Len(data) >= 4 /\ SubSeq(data, 1, 4) = <<40, 181, 47, 253>>

\* the directory holds patch.json with exactly the bytes of the blob, and nothing else
HoldsOnlyRawPatch ==
    /\ autosaveDir.exists
    /\ DOMAIN autosaveDir.files = {"patch.json"}
    /\ autosaveDir.files["patch.json"] = stateCall.data

\* C15: every blob of at least 4 bytes that starts with the signature, whatever follows
\* (and also when nothing follows), is unarchived into the directory and never written as
\* patch.json
C15_SignatureTakesArchivePath ==
    AcceptedCall /\ HasSignature(stateCall.data) =>
        /\ Performed("unarchiveToDirectory")
        /\ ~Performed("fopen") /\ ~Performed("fwrite")

\* C16: every blob of at least 4 bytes that does not start with the signature goes the
\* way of the raw document and not of the archive, and when the engine's load step runs
\* the directory holds patch.json with exactly the bytes of the blob and nothing else
C16_RawBlobWrittenVerbatim ==
    AcceptedCall /\ ~HasSignature(stateCall.data) =>
        /\ Performed("fopen")
        /\ ~Performed("unarchiveToDirectory")
        /\ Performed("loadAutosave") => HoldsOnlyRawPatch

\* the directory holds everything the blob stands for: the bytes themselves as patch.json
\* on the raw path, every file of the archive on the archive path
Populated ==
    IF stateCall.raw
    THEN /\ "patch.json" \in DOMAIN autosaveDir.files
         /\ autosaveDir.files["patch.json"] = stateCall.data
    ELSE stateCall.caught # "unarchiveToDirectory"

PopulateOps == {"fopen", "fwrite", "unarchiveToDirectory"}

\* C17: an accepted call removes the directory, recreates it, populates it and then has
\* the engine load it, in this order; the load runs once when the population succeeded,
\* never before the population is over and never when the population failed
C17_ClearPopulateLoadInOrder ==
    AcceptedCall =>
        /\ Len(StepOps) >= 3
        /\ StepOps[1] = "removeRecursively"
        /\ StepOps[2] = "createDirectories"
        /\ StepOps[3] \in PopulateOps
        /\ \A i \in Positions("loadAutosave") :
             \A j \in 1..Len(StepOps) : StepOps[j] \in PopulateOps => j < i
        /\ Populated => Cardinality(Positions("loadAutosave")) = 1
        /\ ~Populated => Positions("loadAutosave") = {}

\* the last call caught an exception of unarchiveToDirectory or of loadAutosave
CaughtCall == stateCall.valid /\ stateCall.caught # ""

\* C18: when unarchiving or the engine's load throws, no exception leaves setState, the
\* context binding the call made is cleared again (and a call that made none clears none),
\* and the instance takes further calls
C18_ExceptionsStayInside ==
    CaughtCall =>
        /\ stateCall.escaped = ""
        /\ stateCall.caught = "loadAutosave" =>
              /\ Performed("contextSet")
              /\ StepOps[Len(StepOps)] = "contextSet(nullptr)"
        /\ stateCall.caught = "unarchiveToDirectory" =>
              ~Performed("contextSet") /\ ~Performed("contextSet(nullptr)")
        /\ ~fault

\* the load threw, and the audio thread has begun a block since
C18_Witness ==
    /\ stateCall.valid
    /\ stateCall.caught = "loadAutosave"
    /\ rackContext = "this"
    /\ pc = "stepBlock"

\* C19: the directory the constructor created exists in every state, also between the
\* steps of a setState("patch") call and after a call in which something failed
C19_DirectoryAlwaysExists ==
    fAutosavePath # "" =>
        /\ autosaveDir.exists
        /\ \A i \in 1..Len(stateCall.steps) : stateCall.steps[i].exists

\* the files a blob stands for when it is written whole: the blob as patch.json, or all
\* the files of the archive when every entry of it can be extracted
WholeContents(data) ==
    { "patch.json" :> data } \cup
    (IF ~unarchiveToDirectory(data, EmptyDir).threw
     THEN { unarchiveToDirectory(data, EmptyDir).dir.files }
     ELSE {})

\* C20: when a setState("patch") call with an accepted blob returns, the directory holds
\* the whole content of the new blob, or nothing, or the whole content it held before
C20_NeverPartiallyWritten ==
    [][PatchCallStep /\ Len(stateCall'.data) >= 4 =>
          \/ autosaveDir'.files = NoFiles
          \/ autosaveDir'.files = autosaveDir.files
          \/ autosaveDir'.files \in WholeContents(stateCall'.data)]_vars

\* the step just taken is a getState("patch") call on an instance with a directory
GetPatchStep ==
    stateCall'.op = "getState" /\ stateCall'.bound /\ UNCHANGED <<context, renderVars>>

\* `op` was performed exactly once in the last call
Once(op) == Cardinality(Positions(op)) = 1

\* every occurrence of `a` in the last call lies before every occurrence of `b`
Before(a, b) == \A i \in Positions(a), j \in Positions(b) : i < j

\* C21: getState("patch") performs prepareSave, saveAutosave, cleanAutosave, the archiving
\* of the directory and the base64 encoding once each and in this order; what is archived
\* is the directory after the flush of the engine's patch, and the text returned is the
\* base64 form of exactly the archive bytes
C21_FlushArchiveEncodeInOrder ==
    (GetPatchCall /\ stateCall.caught = "") =>
        /\ \A op \in {"prepareSave", "saveAutosave", "cleanAutosave", "archiveDirectory",
                       "asBase64"} : Once(op)
        /\ Before("prepareSave", "saveAutosave")
        /\ Before("saveAutosave", "cleanAutosave")
        /\ Before("cleanAutosave", "archiveDirectory")
        /\ Before("archiveDirectory", "asBase64")
        /\ autosaveDir = FlushToAutosave(enginePatch)
        /\ stateCall.data = archiveDirectory(autosaveDir)
        /\ returned = asBase64(stateCall.data)
        /\ d_getChunkFromBase64String(returned) = stateCall.data

\* the state of a patch with module data was saved into a directory that held other files
C21_Witness ==
    /\ GetPatchCall
    /\ stateCall.caught = ""
    /\ enginePatch = ModulePatch
    /\ returned = asBase64(ModuleArchive)

\* C22: when archiveDirectory throws in getState("patch"), the call returns the empty
\* string, nothing is encoded, and the context binding is null when the call returns
C22_ArchiveFailureGivesEmptyText ==
    [][(GetPatchStep /\ stateCall'.caught = "archiveDirectory") =>
          /\ returned' = NoText
          /\ stateCall'.data = <<>>
          /\ "asBase64" \notin { stateCall'.steps[i].op : i \in 1..Len(stateCall'.steps) }
          /\ stateCall'.escaped = ""
          /\ rackContext' = "null"]_vars

\* archiveDirectory threw in a getState("patch") called after a block was rendered, which
\* left the context bound
C22_Witness ==
    /\ GetPatchCall
    /\ stateCall.caught = "archiveDirectory"
    /\ context.processCounter > 0
    /\ pc = "idle"
    /\ rackContext = "null"
    /\ returned = NoText

\* the step just taken is a setState("patch") call that was handed the text the
\* getState("patch") call before it returned, and in which nothing failed
RoundTripStep ==
    /\ PatchCallStep
    /\ GetPatchCall
    /\ stateCall.caught = ""
    /\ stateCall'.data = d_getChunkFromBase64String(returned)
    /\ stateCall'.caught = ""
    /\ stateCall'.logged = ""

\* C23: setState("patch", getState("patch")) without a failure leaves the directory with
\* the files and bytes it had when getState archived it, takes the archive path, and the
\* engine is told to load from the directory
C23_RoundTripRestoresDirectory ==
    [][RoundTripStep =>
          /\ autosaveDir'.exists
          /\ autosaveDir'.files = autosaveDir.files
          /\ autosaveDir'.files = enginePatch
          /\ ~stateCall'.raw
          /\ "loadAutosave" \in { stateCall'.steps[i].op : i \in 1..Len(stateCall'.steps) }
          /\ enginePatch' = enginePatch]_vars

\* the state of a patch with module data went through getState and back through setState
C23_Witness ==
    /\ stateCall.valid
    /\ stateCall.data = d_getChunkFromBase64String(returned)
    /\ stateCall.data = ModuleArchive
    /\ stateCall.caught = ""
    /\ Performed("unarchiveToDirectory")
    /\ Performed("loadAutosave")
    /\ autosaveDir.files = ModulePatch

\* the step just taken is a getState("patch") or setState("patch") call on an instance
\* with a directory
ControlCallStep == GetPatchStep \/ PatchCallStep

\* the calls into the engine and the patch manager, and the operations on the directory
EngineOps == {"prepareSave", "saveAutosave", "cleanAutosave", "loadAutosave"}
DirectoryOps ==
    {"removeRecursively", "createDirectories", "fopen", "fwrite", "unarchiveToDirectory",
     "archiveDirectory"}

\* the binding in force while step i of the call just made ran
BindingAt(i) == BindingAfter(SubSeq(stateCall'.steps, 1, i - 1), rackContext)

\* the call just made bound the context
BoundContext == \E i \in 1..Len(stateCall'.steps) : stateCall'.steps[i].op = "contextSet"

\* C24 as stated: every directory and engine step of a getState("patch") or
\* setState("patch") call runs with the binding set to this instance's context, and the
\* binding is null when the call returns, however it returns
C24_AsStated ==
    [][ControlCallStep =>
          /\ \A i \in 1..Len(stateCall'.steps) :
                 stateCall'.steps[i].op \in EngineOps \cup DirectoryOps =>
                     BindingAt(i) = "this"
          /\ rackContext' = "null"]_vars

\* C24: getState("patch") runs its engine steps and the archiving with the binding set to
\* this instance's context; setState("patch") runs only loadAutosave with it and the
\* directory steps before it with the binding the call found; a call that bound the
\* context returns with the binding null, a call that did not leaves it as it found it
C24_BoundAroundEngineCalls ==
    [][ControlCallStep =>
          /\ \A i \in 1..Len(stateCall'.steps) :
                 /\ stateCall'.steps[i].op \in EngineOps => BindingAt(i) = "this"
                 /\ stateCall'.steps[i].op \in DirectoryOps =>
                        BindingAt(i) = (IF stateCall'.op = "getState" THEN "this"
                                        ELSE rackContext)
          /\ stateCall'.op = "getState" => BoundContext
          /\ rackContext' = (IF BoundContext THEN "null" ELSE rackContext)]_vars

\* a setState("patch") called after a block was rendered got as far as the load and
\* cleared the binding the block had left
C24_Witness ==
    /\ stateCall.valid
    /\ Performed("removeRecursively")
    /\ Performed("loadAutosave")
    /\ context.processCounter > 0
    /\ pc = "idle"
    /\ rackContext = "null"

(***************************************************************************)
(* Claims about an instance without a directory and about who writes the   *)
(* directory (SpecLife).                                                   *)
(***************************************************************************)
\* the operations of the call just made
StepOpsAfter == { stateCall'.steps[i].op : i \in 1..Len(stateCall'.steps) }

\* the step just taken is a call on the control thread or on the OSC thread
CallStep(op) == stateCall'.op = op /\ UNCHANGED <<context, renderVars>>

\* the step just taken is the destructor
DestructorStep == pc # "destroyed" /\ pc' = "destroyed"

StepSeqAfter == [i \in 1..Len(stateCall'.steps) |-> stateCall'.steps[i].op]

\* C30 as stated: while the instance lives, its directory is changed only by its
\* getState("patch") and setState("patch") calls, and the remote-control load handler
\* neither clears the directory nor unarchives into it
C30_AsStated ==
    [][~DestructorStep =>
          /\ autosaveDir' # autosaveDir =>
                 CallStep("getState") \/ CallStep("setState")
          /\ CallStep("osc_load") =>
                 StepOpsAfter \cap {"removeRecursively", "unarchiveToDirectory"} = {}]_vars

\* C30: the directory is changed only by the instance's getState("patch") and
\* setState("patch") calls, by its destructor and by the remote-control load handler; the
\* handler, for a blob of more than 4 bytes, binds the context, removes the directory,
\* creates it again, unarchives the blob into it, has the engine load it unless the
\* unarchiving threw, and clears the binding; a shorter blob changes nothing
C30_WrittenByStateCallsAndRemoteLoad ==
    [][/\ autosaveDir' # autosaveDir =>
              \/ CallStep("getState")
              \/ CallStep("setState")
              \/ CallStep("osc_load")
              \/ DestructorStep
       /\ (CallStep("osc_load") /\ OscAcceptsBlob(stateCall'.data)) =>
              /\ Len(StepSeqAfter) >= 5
              /\ SubSeq(StepSeqAfter, 1, 4) =
                     <<"contextSet", "removeRecursively", "createDirectories",
                       "unarchiveToDirectory">>
              /\ StepSeqAfter[Len(StepSeqAfter)] = "contextSet(nullptr)"
              /\ ("loadAutosave" \in StepOpsAfter) =
                     ~unarchiveToDirectory(stateCall'.data, EmptyDir).threw
              /\ rackContext' = "null"
       /\ (CallStep("osc_load") /\ ~OscAcceptsBlob(stateCall'.data)) =>
              /\ stateCall'.steps = <<>>
              /\ UNCHANGED <<autosaveDir, enginePatch, rackContext>>]_vars

\* a /load message with the archive of a patch replaced the content of the directory and
\* the patch of the engine, which held the template
C30_Witness ==
    /\ stateCall.op = "osc_load"
    /\ stateCall.reported = "ok"
    /\ Performed("unarchiveToDirectory")
    /\ autosaveDir.files = ModulePatch
    /\ enginePatch = ModulePatch
    /\ returned = NoText

(***************************************************************************)
(* Claims about the directories of several instances (SpecProcess).        *)
(***************************************************************************)
\* the instance is constructed and its destructor has not begun
Live(p) == plugins[p].pc \in {"live", "setCreate", "setFill"}

\* C25: no two live instances hold the same non-empty fAutosavePath, whatever the
\* interleaving of constructors, destructors and setState("patch") calls
C25_NoSharedDirectory ==
    \A p, q \in Instances :
        (p # q /\ Live(p) /\ Live(q) /\ HasPath(p)) => plugins[p].path # plugins[q].path

\* the candidates the constructor of p has tested are 1, 2, 3, ... in this order, and all
\* but the last one existed
TestedInOrder(p) ==
    LET t == plugins[p].tested
    IN  \A j \in 1..Len(t) : t[j].i = j /\ (j < Len(t) => t[j].existed)

\* the step just taken is the constructor of p getting the answer of createDirectories
CtorCreateStep(p) ==
    plugins[p].pc = "createDirectories" /\ plugins'[p].pc # "createDirectories"

\* the constructor of p is over
Constructed(p) == plugins[p].pc \notin {"none", "exists", "createDirectories"}

\* C26: the constructor tests the suffixes 1, 2, 3, ... in increasing order and goes to
\* createDirectories at the first candidate that does not exist; when createDirectories
\* answers true that candidate becomes fAutosavePath, when it does not fAutosavePath stays
\* empty, and in both cases no further candidate is tested; a candidate that exists is
\* never adopted
C26_FirstFreeCandidateOrNone ==
    [][\A p \in Instances :
          LET me      == plugins[p]
              after   == plugins'[p]
              trypath == Format04d(me.i)
          IN  /\ TestedInOrder(p)'
              /\ after.pc = "createDirectories" =>
                     /\ after.tested # <<>>
                     /\ ~after.tested[Len(after.tested)].existed
                     /\ after.i = Len(after.tested)
              /\ CtorCreateStep(p) =>
                     /\ after.tested = me.tested
                     /\ after.created = "true" =>
                            /\ after.path = trypath
                            /\ ~tempDir[trypath].exists
                            /\ tempDir'[trypath].exists
                     /\ after.created # "true" =>
                            /\ after.path = EmptyPath
                            /\ tempDir' = tempDir
              /\ (me.pc = "exists" /\ tempDir[trypath].exists) => after.path = EmptyPath
              /\ Constructed(p) =>
                     /\ after.tested = me.tested
                     /\ after.path = me.path]_vars

\* the first candidate existed and the second was created and adopted
C26_Witness ==
    \E p \in Instances :
        /\ plugins[p].pc = "live"
        /\ plugins[p].tested = <<[i |-> 1, existed |-> TRUE], [i |-> 2, existed |-> FALSE]>>
        /\ plugins[p].created = "true"
        /\ plugins[p].path = Format04d(2)
        /\ tempDir[Format04d(2)].exists

\* the step just taken is the last statement of the destructor of p
DtorRemoveStep(p) == plugins[p].pc = "dtorRemove" /\ plugins'[p].pc = "destroyed"

\* C28: when an instance that adopted a directory is destroyed, the directory and all it
\* holds is removed, after the context has been deleted, and no directory of another live
\* instance is removed
C28_DestructorRemovesOwnDirectoryOnly ==
    [][\A p \in Instances :
          /\ (plugins[p].pc # "destroyed" /\ plugins'[p].pc = "destroyed") =>
                 plugins[p].pc = "dtorRemove"
          /\ (DtorRemoveStep(p) /\ HasPath(p)) =>
                 /\ tempDir'[plugins[p].path] = AbsentDir
                 /\ \A q \in Instances \ {p} :
                        (Live(q) /\ HasPath(q)) =>
                            tempDir'[plugins[q].path] = tempDir[plugins[q].path]]_vars

(***************************************************************************)
(* Claims about the engine step of run() (SpecTransport).                  *)
(***************************************************************************)
\* the step just taken is run() from its entry to its call of stepBlock
EnterStepBlock == pc = "idle" /\ pc' = "stepBlock"

\* the step just taken is the rest of run(), from the return of stepBlock
LeaveStepBlock == pc = "stepBlock" /\ pc' = "idle"

\* C29: every run() increments context->processCounter by exactly 1 and calls stepBlock
\* exactly once, with the block length of the host, when the buffer views, the transport
\* state, the reset flag and the MIDI selection of the block are in the context; the
\* context is not written again before run() returns, and nothing else counts blocks
C29_OneEngineStepPerBlock ==
    [][/\ EnterStepBlock =>
              LET sel == SelectMidiEvents(context.bypassed, fWasBypassed,
                                          call'.midiEvents, call'.midiEventCount)
                  ctx == SyncTransport(context, fNextExpectedFrame, call'.tp)
              IN  /\ context'.processCounter = context.processCounter + 1
                  /\ call'.stepBlock = <<call'.frames>>
                  /\ context'.dataIns =
                         (IF SeparateBuffers(call'.inArr, call'.outArr, call'.inputs,
                                             call'.outputs)
                          THEN HostView(call'.inputs) ELSE CopyView)
                  /\ context'.dataOuts = HostView(call'.outputs)
                  /\ context'.playing = call'.tp.playing
                  /\ context'.frame = call'.tp.frame
                  /\ context'.reset = ctx.reset
                  /\ context'.midiEvents = sel.midiEvents
                  /\ context'.midiEventCount = sel.midiEventCount
       /\ LeaveStepBlock => (context' = context /\ call' = call)
       /\ ~EnterStepBlock => context'.processCounter = context.processCounter]_vars

\* the second block of a playing transport is inside stepBlock: one frame long, with the
\* reset flag clear
C29_Witness ==
    /\ pc = "stepBlock"
    /\ context.processCounter = 2
    /\ call.frames = 1
    /\ call.stepBlock = <<1>>
    /\ context.playing
    /\ ~context.reset

(***************************************************************************)
(* Claims about the musical-time fields (SpecTransport).                   *)
(***************************************************************************)
\* the musical-time fields of the context, and those copied as they are
MusicalTimeFields ==
    {"bar", "beat", "beatsPerBar", "beatType", "barStartTick", "beatsPerMinute", "tick",
     "ticksPerBeat", "ticksPerClock", "ticksPerFrame", "tickClock"}
CopiedFields ==
    {"bar", "beat", "beatsPerBar", "beatType", "barStartTick", "beatsPerMinute", "tick",
     "ticksPerBeat"}

\* C31: a block whose snapshot is not valid leaves the eleven musical-time fields of the
\* context as they were and writes the playing flag, the validity flag and the frame (and
\* the reset flag); in a block with a valid snapshot the eight copied fields equal the
\* snapshot's values
C31_MusicalTimeOnlyFromValidSnapshot ==
    [][EnterStepBlock =>
          /\ context'.playing = call'.tp.playing
          /\ context'.bbtValid = call'.tp.bbt.valid
          /\ context'.frame = call'.tp.frame
          /\ context'.reset \in BOOLEAN
          /\ ~call'.tp.bbt.valid =>
                 \A f \in MusicalTimeFields : context'[f] = context[f]
          /\ call'.tp.bbt.valid =>
                 \A f \in CopiedFields : context'[f] = call'.tp.bbt[f]]_vars

\* a block without a valid snapshot follows a block with one: the context still holds the
\* bar and the tempo of the earlier block
C31_Witness ==
    /\ pc = "stepBlock"
    /\ prev.valid
    /\ ~call.tp.bbt.valid
    /\ ~context.bbtValid
    /\ context.bar = BBT(TRUE, 2).bar
    /\ context.beatsPerMinute = BBT(TRUE, 2).beatsPerMinute
    /\ context.bar # call.tp.bbt.bar

\* a playing block that follows a block without playback, or that is the first block after
\* activate()
StartOfPlayback ==
    /\ EnterStepBlock
    /\ call'.tp.playing
    /\ ~call'.ctxPlaying \/ call'.afterActivate

\* C32 as stated: the first playing block after a block without playback, and the first
\* playing block after activate(), has the reset flag set exactly when its frame is 0 or
\* above 2
C32_AsStated ==
    [][StartOfPlayback =>
          (context'.reset <=> (call'.tp.frame = 0 \/ call'.tp.frame > 2))]_vars

\* C32: as above, except that a first block after activate() at frame 0 has no reset when
\* the context still holds playing and frame 0 from the last block before activate()
C32_StartOfPlaybackReset ==
    [][StartOfPlayback =>
          (context'.reset <=>
              /\ call'.tp.frame = 0 \/ call'.tp.frame > 2
              /\ ~(call'.ctxPlaying /\ call'.ctxFrame = 0 /\ call'.tp.frame = 0))]_vars

\* playback starts at frame 2 after a block without playback, and there is no reset
C32_Witness ==
    /\ pc = "stepBlock"
    /\ prev.valid
    /\ ~call.ctxPlaying
    /\ call.tp.playing
    /\ call.tp.frame = 2
    /\ ~context.reset

(***************************************************************************)
(* Claims about the bypass flag and a block in progress (SpecBypass).      *)
(***************************************************************************)
\* the step just taken was made by another thread while run() is inside stepBlock
DuringStepBlock == pc = "stepBlock" /\ pc' = "stepBlock"

\* C33: run() uses the bypass flag it read at its start for the event selection and for
\* fWasBypassed; a setParameterValue during the block leaves the events of the block as
\* they are; the next block compares the flag it reads with the one the block before it
\* used, so the block that first reads bypass on delivers the 16 synthesized events, and
\* they are delivered once
C33_BypassReadOncePerBlock ==
    [][/\ DuringStepBlock =>
              /\ context'.midiEvents = context.midiEvents
              /\ context'.midiEventCount = context.midiEventCount
              /\ call' = call
       /\ LeaveStepBlock => fWasBypassed' = call.bypassed
       /\ EnterStepBlock =>
              /\ call'.bypassed = context.bypassed
              /\ call.valid => fWasBypassed = call.bypassed
              /\ (context.bypassed /\ ~fWasBypassed) =>
                     /\ context'.midiEvents.src = "bypass"
                     /\ context'.midiEventCount = 16
                     /\ edgeInjections' = 1
              /\ (context.bypassed /\ fWasBypassed) =>
                     /\ context'.midiEventCount = 0
                     /\ edgeInjections' = 1
              /\ ~context.bypassed => context'.midiEvents.src = "host"]_vars

\* the bypass parameter was switched on while a block rendered with bypass off was inside
\* stepBlock: the block keeps the host's events
C33_Witness ==
    /\ pc = "stepBlock"
    /\ ~call.bypassed
    /\ context.bypassed
    /\ ~fWasBypassed
    /\ call.midiEvents # <<>>
    /\ DeliveredEvents = call.midiEvents

(***************************************************************************)
(* Claims about the life of the scratch buffers (SpecAudio, SpecScratch).  *)
(***************************************************************************)
\* C34: whenever run() copies the inputs, fAudioBufferCopy is allocated and holds at least
\* `frames` samples per channel: no call of run() writes through a null or too small
\* scratch array, whatever the order of activate(), deactivate() and run()
C34_ScratchAllocatedWhenCopied ==
    /\ ~fault
    /\ (pc = "stepBlock" /\ context.dataIns = CopyView) =>
            (fAudioBufferCopy.alloc /\ call.frames <= fAudioBufferCopy.size)

\* C35: at most one set of scratch buffers is allocated at any time (no activate() leaves
\* an earlier set allocated and unreferenced), and none is allocated once the instance is
\* destroyed
C35_AtMostOneScratchSet ==
    /\ ~lostCopy
    /\ pc = "destroyed" => ~fAudioBufferCopy.alloc

(***************************************************************************)
(* Claims about the binding while a block is rendered (SpecLife).          *)
(***************************************************************************)
\* C36: while run() is inside stepBlock the binding made by rack::contextSet is this
\* instance's context, whatever getState, setState or the remote load handler do on
\* another thread in the meantime
C36_BoundWhileInStepBlock ==
    pc = "stepBlock" => rackContext = "this"

(***************************************************************************)
(* Claims about a setState that fails while filling the directory          *)
(* (SpecState).                                                            *)
(***************************************************************************)
\* the call `c` was a setState("patch") that returned because patch.json could not be
\* opened or because unarchiveToDirectory threw
PopulateFailed(c) ==
    c.valid /\ c.logged \in {"f != nullptr", "setState unarchiveToDirectory"}

\* C37: a setState("patch") that fails while filling the directory does not call
\* loadAutosave, binds no context and leaves the engine's patch as it was; a getState("patch")
\* that follows it and succeeds flushes that patch into the directory and returns its
\* archive
C37_FailedPopulateKeepsPatch ==
    [][/\ (PatchCallStep /\ PopulateFailed(stateCall')) =>
              /\ "loadAutosave" \notin StepOpsAfter
              /\ ~stateCall'.bound
              /\ rackContext' = rackContext
              /\ enginePatch' = enginePatch
       /\ (GetPatchStep /\ PopulateFailed(stateCall) /\ stateCall'.caught = "") =>
              /\ enginePatch' = enginePatch
              /\ autosaveDir' = FlushToAutosave(enginePatch)
              /\ returned' = asBase64(archiveDirectory(FlushToAutosave(enginePatch)))
              /\ returned' # NoText]_vars

\* unarchiving a cut archive failed after the engine had loaded a patch with module data:
\* the directory holds part of the new blob, the engine still has its patch
C37_Witness ==
    /\ PopulateFailed(stateCall)
    /\ stateCall.caught = "unarchiveToDirectory"
    /\ enginePatch = ModulePatch
    /\ autosaveDir.files # enginePatch

(***************************************************************************)
(* Claims about writeMidiMessage (SpecMidi).                               *)
(***************************************************************************)
\* C38: a call of writeMidiMessage made while context->bypassed is set hands no event to
\* the plugin, whatever the message and the channel; a call made while it is clear hands
\* over at most one
C38_NoOutputWhileBypassed ==
    midiCall.valid =>
        /\ midiCall.bypassed => midiCall.written = <<>>
        /\ Len(midiCall.written) <= 1

\* a complete note-on message was sent on channel 2 during a block in which the bypass
\* flag is set, and nothing was written
C38_Witness ==
    /\ midiCall.valid
    /\ midiCall.bypassed
    /\ midiCall.bytes = <<145, 64, 127>>
    /\ midiCall.frame = 0
    /\ midiCall.channel = 2
    /\ midiCall.written = <<>>

\* the size the claim gives for a first byte, 0 where it says that nothing is emitted
ClaimedSize(first) ==
    IF first \in {241, 242, 243, 254} THEN 3
    ELSE IF first \in {246, 248, 250, 251, 252, 255} THEN 1
    ELSE IF first >= 240 \/ first < 128 THEN 0
    ELSE IF first - (first % 16) \in {128, 144, 160, 176, 224} THEN 3
    ELSE 2

\* the last call was made with the bypass flag clear and a message that the claim says
\* is emitted
ClaimedEmitted ==
    /\ midiCall.bytes # <<>>
    /\ midiCall.frame >= 0
    /\ ClaimedSize(midiCall.bytes[1]) > 0
    /\ Len(midiCall.bytes) >= ClaimedSize(midiCall.bytes[1])

\* C39: with the bypass flag clear, writeMidiMessage writes one event of the size that
\* belongs to the first byte, holding the first bytes of the message, the first of them
\* with the low 4 bits of a channel other than 0 OR-ed in when it is below 0xF0; it
\* writes nothing for an unsupported or invalid first byte, an empty message, a negative
\* frame or a message shorter than that size
C39_EventSizeAndBytes ==
    (midiCall.valid /\ ~midiCall.bypassed) =>
        IF ClaimedEmitted
        THEN /\ Len(midiCall.written) = 1
             /\ midiCall.written[1].size = ClaimedSize(midiCall.bytes[1])
             /\ \A k \in 2..midiCall.written[1].size :
                    midiCall.written[1].data[k] = midiCall.bytes[k]
             /\ midiCall.written[1].data[1] =
                    (IF midiCall.channel # 0 /\ midiCall.bytes[1] < 240
                     THEN BitOr(midiCall.bytes[1], midiCall.channel % 16)
                     ELSE midiCall.bytes[1])
        ELSE midiCall.written = <<>>

\* a note-on with status 0x91 went out on channel 2 as an event of 3 bytes with first
\* byte 0x93
C39_Witness ==
    /\ midiCall.valid
    /\ ~midiCall.bypassed
    /\ midiCall.bytes = <<145, 64, 127, 1>>
    /\ midiCall.channel = 2
    /\ Len(midiCall.written) = 1
    /\ midiCall.written[1].size = 3
    /\ midiCall.written[1].data[1] = 147
    /\ midiCall.written[1].data[2] = 64
    /\ midiCall.written[1].data[3] = 127

====
